---------------------------- MODULE Spec2Model ----------------------------
(***************************************************************************)
(* SpreadsheetManager (src/spreadsheet_manager.py): spreadsheets kept as   *)
(* SQLite tables, with a registry table _spreadsheet_meta.                 *)
(*                                                                         *)
(* A Python str is a sequence of one-character strings, so that the        *)
(* sanitizer, ",".join and str.split are computed character by character.  *)
(***************************************************************************)
EXTENDS Integers, Sequences, FiniteSets, TLC

VARIABLES
    meta,                 \* rows of _spreadsheet_meta, in insertion order
    tables,               \* physical spreadsheet tables: name -> columns, rows
    sqlite_sequence,      \* AUTOINCREMENT counters: table name -> last id
    current_spreadsheet,  \* SpreadsheetManager.current_spreadsheet
    result,               \* outcome of the last call (return value or raise)
    x,                    \* an input of _sanitize_name
    s,                    \* what _sanitize_name(x) gave
    agent,                \* SpreadsheetAgent.run: where it is, what it read and showed
    chart,                \* what plot_data_tool chose for the last plot
    rebuild,              \* delete_column's rebuild: the statement reached, the open transaction
    assigned              \* history: the <<table, row id>> pairs add_row has handed out

db == <<meta, tables, sqlite_sequence>>
san == <<x, s>>
ui == <<agent, chart>>
vars == <<meta, tables, sqlite_sequence, current_spreadsheet, result, x, s, agent, chart,
          rebuild, assigned>>

----------------------------------------------------------------------------
(* Bounds *)

\* longest input of _sanitize_name drawn in SpecSan
MaxLen == 3
\* largest row id add_row may hand out
MaxId == 2
\* most rows the database holds, all tables together
MaxRows == 2

----------------------------------------------------------------------------
(* Python values *)

None == <<"None">>
Unset == <<"Unset">>
NULL == "<NULL>"

\* what a call that raised left behind
IndexError == <<"IndexError">>
OperationalError == <<"OperationalError">>

\* no plot asked for yet
NoChart ==
    [args |-> <<>>, plot_type |-> "", x_column |-> <<>>, y_column |-> <<>>,
     numeric_cols |-> <<>>, categorical_cols |-> <<>>, error |-> ""]

\* no delete_column under way, nothing uncommitted
NoRebuild ==
    [pc |-> "idle", args |-> <<>>, table |-> <<>>, remaining |-> <<>>,
     in_transaction |-> FALSE,
     disk |-> [meta |-> <<>>, tables |-> <<>>, sqlite_sequence |-> <<>>]]

\* the selection taken before the argument
Or_CurrentFirst(a, b) == IF b = None \/ b = <<>> THEN a ELSE b

\* x or y
Or(a, b) == IF a = None \/ a = <<>> THEN b ELSE a

----------------------------------------------------------------------------
(* Characters *)

LowerLetters ==
    <<"a","b","c","d","e","f","g","h","i","j","k","l","m",
      "n","o","p","q","r","s","t","u","v","w","x","y","z">>
UpperLetters ==
    <<"A","B","C","D","E","F","G","H","I","J","K","L","M",
      "N","O","P","Q","R","S","T","U","V","W","X","Y","Z">>
Digits == {"0","1","2","3","4","5","6","7","8","9"}
Whitespace == {" "}

Range(f) == {f[i] : i \in DOMAIN f}

\* str.lower(), one character
ToLower == [c \in Range(UpperLetters) |->
               LowerLetters[CHOOSE i \in 1..26 : UpperLetters[i] = c]]

lowerChar(c) == IF c \in DOMAIN ToLower THEN ToLower[c] ELSE c

\* str.lower()
lower(str) == [i \in 1..Len(str) |-> lowerChar(str[i])]

\* str.strip()
RECURSIVE lstrip(_)
lstrip(str) ==
    IF str # <<>> /\ Head(str) \in Whitespace THEN lstrip(Tail(str)) ELSE str

RECURSIVE rstrip(_)
rstrip(str) ==
    IF str # <<>> /\ str[Len(str)] \in Whitespace
    THEN rstrip(SubSeq(str, 1, Len(str) - 1))
    ELSE str

\* nothing stripped
strip_Nothing(str) == str

strip(str) == rstrip(lstrip(str))

\* re.sub(r'[^a-zA-Z0-9_]', '_', str)
WordChars == Range(LowerLetters) \cup Range(UpperLetters) \cup Digits \cup {"_"}

IsWordChar(c) == c \in WordChars

re_sub(str) == [i \in 1..Len(str) |-> IF IsWordChar(str[i]) THEN str[i] ELSE "_"]

\* _sanitize_name: sanitized[0] of an empty string raises IndexError
_sanitize_name(name) ==
    LET sanitized == re_sub(strip(lower(name)))
    IN  IF sanitized = <<>> THEN IndexError
        ELSE IF sanitized[1] \in Digits THEN <<"_">> \o sanitized
        ELSE sanitized

----------------------------------------------------------------------------
(* Inputs of the sanitizer check *)

SanChars == {"a", "B", "7", "_", " ", "!"}

RECURSIVE StringsUpTo(_)
StringsUpTo(n) ==
    IF n = 0 THEN {<<>>}
    ELSE LET shorter == StringsUpTo(n - 1)
         IN  shorter \cup {Append(str, c) : str \in shorter, c \in SanChars}

----------------------------------------------------------------------------
(* Names SQLite and the manager reserve *)

MetaTable == <<"_","s","p","r","e","a","d","s","h","e","e","t","_","m","e","t","a">>
SqlitePrefix == <<"s","q","l","i","t","e","_">>
TempPrefix == <<"_","t","e","m","p","_">>
IdColumn == <<"i","d">>

HasPrefix(str, prefix) ==
    Len(str) >= Len(prefix) /\ SubSeq(str, 1, Len(prefix)) = prefix

----------------------------------------------------------------------------
(* Inputs *)

RawNames == {<<"T", " ">>, <<>>, MetaTable}

ColumnLists ==
    { <<<<"B">>, <<"a">>>>,        \* sanitizes to b, a
      <<<<"a">>, <<"A">>>>,        \* two names, one sanitized form
      <<<<"a">>, IdColumn>>,       \* the name of the id column
      <<<<"a">>, <<" ">>>>,        \* a blank name
      <<>> }                       \* no column at all

RawColumns == {<<"a">>, <<"B">>, <<>>}

Targets == {None, <<"T">>}

RowIds == 1..(MaxId + 1)

\* dicts, as sequences of <<key, value>> in insertion order
DataDicts ==
    { <<>>,
      << <<<<"a">>, "x">> >>,
      << <<<<"B">>, "x">>, <<<<"z">>, "x">> >>,
      << <<<<"a">>, "y">>, <<<<"A">>, "x">> >>,
      << <<<<"a">>, "x">>, <<<<>>, "x">> >> }

----------------------------------------------------------------------------
(* The registry *)

\* ",".join(columns)
RECURSIVE Join(_)
Join(list) ==
    IF list = <<>> THEN <<>>
    ELSE IF Len(list) = 1 THEN list[1]
    ELSE list[1] \o <<",">> \o Join(Tail(list))

\* str.split(",")
RECURSIVE Split(_)
Split(str) ==
    IF \E i \in 1..Len(str) : str[i] = ","
    THEN LET i == CHOOSE i \in 1..Len(str) :
                      /\ str[i] = ","
                      /\ \A j \in 1..(i - 1) : str[j] # ","
         IN  <<SubSeq(str, 1, i - 1)>> \o Split(SubSeq(str, i + 1, Len(str)))
    ELSE <<str>>

\* every name taken for registered
_spreadsheet_exists_Always(name) == TRUE

\* the check skipped
_spreadsheet_exists_Never(name) == FALSE

_spreadsheet_exists(name) == \E i \in 1..Len(meta) : meta[i].name = name

MetaRow(name) == meta[CHOOSE i \in 1..Len(meta) : meta[i].name = name]

get_columns(spreadsheet) ==
    LET table == Or(spreadsheet, current_spreadsheet)
    IN  IF table = None \/ table = <<>> THEN <<>>
        ELSE IF \E i \in 1..Len(meta) : meta[i].name = table
             THEN IF MetaRow(table).columns # <<>>
                  THEN Split(MetaRow(table).columns)
                  ELSE <<>>
             ELSE <<>>

\* the registry update left out
UpdateMeta_Skipped(table, columns) == meta

\* UPDATE _spreadsheet_meta SET columns = ? WHERE name = ?
UpdateMeta(table, columns) ==
    [i \in 1..Len(meta) |->
        IF meta[i].name = table
        THEN [meta[i] EXCEPT !.columns = Join(columns)]
        ELSE meta[i]]

\* every registry row deleted
DeleteMeta_All(table) == <<>>

\* the registry row left behind
DeleteMeta_KeepsRow(table) == meta

\* DELETE FROM _spreadsheet_meta WHERE name = ?
DeleteMeta(table) ==
    LET Keep(row) == row.name # table
    IN  SelectSeq(meta, Keep)

----------------------------------------------------------------------------
(* SQLite *)

\* SQLite matches a table name without regard to ASCII case
HasTable(name) == lower(name) \in DOMAIN tables

\* a statement on the table that names these columns is rejected: "no such
\* table" or "no such column"
NoSuchColumn(name, columns) ==
    \/ ~HasTable(name)
    \/ ~(columns \subseteq Range(tables[lower(name)].columns))

Max(S) == IF S = {} THEN 0 ELSE CHOOSE m \in S : \A n \in S : n <= m

RowIdsOf(t) == {r.id : r \in tables[t].rows}

\* the id an INSERT gets in an AUTOINCREMENT table
NextRowId(t) == Max(RowIdsOf(t) \cup {sqlite_sequence[t]}) + 1

\* the ids an AUTOINCREMENT counter stands for: every id up to it was handed out
HandedOut ==
    UNION {{<<n, i>> : i \in 1..sqlite_sequence[n]} : n \in DOMAIN sqlite_sequence}

RECURSIVE RowCount(_)
RowCount(names) ==
    IF names = {} THEN 0
    ELSE LET t == CHOOSE t \in names : TRUE
         IN  Cardinality(tables[t].rows) + RowCount(names \ {t})

TotalRows == RowCount(DOMAIN tables)

\* CREATE TABLE "name" (id INTEGER PRIMARY KEY AUTOINCREMENT, "c" TEXT, ...)
CreateTableFails(name, columns) ==
    \/ columns = <<>>
    \/ HasTable(name)
    \/ lower(name) = MetaTable
    \/ HasPrefix(lower(name), SqlitePrefix)
    \/ \E i \in 1..Len(columns) : lower(columns[i]) = IdColumn
    \/ \E i, j \in 1..Len(columns) : i # j /\ lower(columns[i]) = lower(columns[j])

EmptyTable(columns) == [columns |-> columns, rows |-> {}]

\* ORDER BY id DESC
RECURSIVE OrderById_Desc(_)
OrderById_Desc(rows) ==
    IF rows = {} THEN <<>>
    ELSE LET first == CHOOSE r \in rows : \A q \in rows : r.id >= q.id
         IN  <<first>> \o OrderById_Desc(rows \ {first})

\* SELECT ... ORDER BY id
RECURSIVE OrderById(_)
OrderById(rows) ==
    IF rows = {} THEN <<>>
    ELSE LET first == CHOOSE r \in rows : \A q \in rows : r.id <= q.id
         IN  <<first>> \o OrderById(rows \ {first})

----------------------------------------------------------------------------
(* Outcomes *)

NoError == [fmt |-> "", arg |-> <<>>]
Error(fmt, arg) == [fmt |-> fmt, arg |-> arg]

\* a call, its arguments, and what it returned
Return(op, args, success, error, data) ==
    [op |-> op, args |-> args, outcome |-> "return", success |-> success,
     error |-> error, data |-> data]

\* a call, its arguments, and the exception it ended with
Raise(op, args, exception) ==
    [op |-> op, args |-> args, outcome |-> "raise", success |-> FALSE,
     error |-> Error("", exception), data |-> <<>>]

NoSpreadsheetSelected == Error("No spreadsheet selected", <<>>)

----------------------------------------------------------------------------
(* SpreadsheetManager *)

Init ==
    /\ meta = <<>>
    /\ tables = <<>>
    /\ sqlite_sequence = <<>>
    /\ current_spreadsheet = None
    /\ result = Return("__init__", <<>>, TRUE, NoError, <<>>)
    /\ x = Unset
    /\ s = Unset
    /\ agent = Unset
    /\ chart = NoChart
    /\ rebuild = NoRebuild
    /\ assigned = {}

\* the message formatted with the sanitized name
AlreadyExists_Sanitized(name, table_name) ==
    Error("Spreadsheet '{name}' already exists", table_name)

\* f"Spreadsheet '{name}' already exists": name is the argument as given
AlreadyExists(name, table_name) ==
    Error("Spreadsheet '{name}' already exists", name)

create_spreadsheet(name, columns) ==
    LET table_name == _sanitize_name(name)
        sanitized_columns == [i \in 1..Len(columns) |-> _sanitize_name(columns[i])]
    IN  /\ UNCHANGED <<san, ui, rebuild>>
        /\ IF table_name = IndexError
           THEN /\ result' = Raise("create_spreadsheet", <<name, columns>>, IndexError)
                /\ UNCHANGED <<db, current_spreadsheet, assigned>>
           ELSE IF _spreadsheet_exists(table_name)
           THEN /\ result' = Return("create_spreadsheet", <<name, columns>>, FALSE,
                                    AlreadyExists(name, table_name), <<>>)
                /\ UNCHANGED <<db, current_spreadsheet, assigned>>
           ELSE IF \E i \in 1..Len(columns) : sanitized_columns[i] = IndexError
           THEN /\ result' = Raise("create_spreadsheet", <<name, columns>>, IndexError)
                /\ UNCHANGED <<db, current_spreadsheet, assigned>>
           ELSE IF CreateTableFails(table_name, sanitized_columns)
           THEN /\ result' = Raise("create_spreadsheet", <<name, columns>>, OperationalError)
                /\ UNCHANGED <<db, current_spreadsheet, assigned>>
           ELSE /\ tables' = (table_name :> EmptyTable(sanitized_columns)) @@ tables
                /\ sqlite_sequence' = (table_name :> 0) @@ sqlite_sequence
                /\ assigned' = {a \in assigned : a[1] # table_name}
                /\ meta' = Append(meta, [name |-> table_name,
                                         columns |-> Join(sanitized_columns)])
                /\ current_spreadsheet' = table_name
                /\ result' = Return("create_spreadsheet", <<name, columns>>, TRUE, NoError,
                                    [spreadsheet |-> table_name,
                                     columns |-> sanitized_columns])

\* d[key] = value on a dict
DictSet(d, key, value) ==
    IF \E i \in 1..Len(d) : d[i][1] = key
    THEN [i \in 1..Len(d) |-> IF d[i][1] = key THEN <<key, value>> ELSE d[i]]
    ELSE Append(d, <<key, value>>)

DictKeys(d) == {d[i][1] : i \in 1..Len(d)}

DictGet(d, key) == d[CHOOSE i \in 1..Len(d) : d[i][1] = key][2]

\* the loop of add_row over data.items(), for keys that sanitize
RECURSIVE SanitizedData(_, _)
SanitizedData(data, columns) ==
    IF data = <<>> THEN <<>>
    ELSE LET before == SanitizedData(SubSeq(data, 1, Len(data) - 1), columns)
             item == data[Len(data)]
             sanitized_key == _sanitize_name(item[1])
         IN  IF sanitized_key \in Range(columns)
             THEN DictSet(before, sanitized_key, item[2])
             ELSE before

\* a column not named takes the value "x"
InsertedRow_Defaults(t, sanitized_data) ==
    [id |-> NextRowId(t),
     cells |-> [c \in Range(tables[t].columns) |->
                   IF c \in DictKeys(sanitized_data)
                   THEN DictGet(sanitized_data, c)
                   ELSE "x"]]

\* INSERT INTO "table" (cols) VALUES (?, ...): a column not named is NULL
InsertedRow(t, sanitized_data) ==
    [id |-> NextRowId(t),
     cells |-> [c \in Range(tables[t].columns) |->
                   IF c \in DictKeys(sanitized_data)
                   THEN DictGet(sanitized_data, c)
                   ELSE NULL]]

add_row(data, spreadsheet) ==
    LET table == Or(spreadsheet, current_spreadsheet)
        columns == get_columns(table)
        sanitized_data == SanitizedData(data, columns)
        t == lower(table)
    IN  /\ UNCHANGED <<san, ui, rebuild, current_spreadsheet, meta>>
        /\ IF table = None \/ table = <<>>
           THEN /\ result' = Return("add_row", <<data, spreadsheet>>, FALSE, NoSpreadsheetSelected, <<>>)
                /\ UNCHANGED <<tables, sqlite_sequence, assigned>>
           ELSE IF \E i \in 1..Len(data) : _sanitize_name(data[i][1]) = IndexError
           THEN /\ result' = Raise("add_row", <<data, spreadsheet>>, IndexError)
                /\ UNCHANGED <<tables, sqlite_sequence, assigned>>
           ELSE IF sanitized_data = <<>>
           THEN /\ result' = Return("add_row", <<data, spreadsheet>>, FALSE,
                                    Error("No valid columns in data", <<>>), <<>>)
                /\ UNCHANGED <<tables, sqlite_sequence, assigned>>
           ELSE IF NoSuchColumn(table, DictKeys(sanitized_data))
           THEN /\ result' = Raise("add_row", <<data, spreadsheet>>, OperationalError)
                /\ UNCHANGED <<tables, sqlite_sequence, assigned>>
           ELSE /\ NextRowId(t) <= MaxId
                /\ TotalRows < MaxRows
                /\ tables' = [tables EXCEPT ![t].rows =
                                 @ \cup {InsertedRow(t, sanitized_data)}]
                /\ sqlite_sequence' = [sqlite_sequence EXCEPT ![t] = NextRowId(t)]
                /\ assigned' = assigned \cup {<<t, NextRowId(t)>>}
                /\ result' = Return("add_row", <<data, spreadsheet>>, TRUE, NoError,
                                    [row_id |-> NextRowId(t)])

\* ALTER TABLE ... ADD COLUMN ... TEXT DEFAULT ? : SQLite's grammar takes no
\* bound parameter in a DEFAULT clause, the statement fails to prepare
add_column(column_name, default_value, spreadsheet) ==
    LET table == Or(spreadsheet, current_spreadsheet)
        sanitized == _sanitize_name(column_name)
        columns == get_columns(table)
    IN  /\ UNCHANGED <<san, ui, rebuild, assigned, db, current_spreadsheet>>
        /\ IF table = None \/ table = <<>>
           THEN result' = Return("add_column", <<column_name, default_value, spreadsheet>>, FALSE, NoSpreadsheetSelected, <<>>)
           ELSE IF sanitized = IndexError
           THEN result' = Raise("add_column", <<column_name, default_value, spreadsheet>>, IndexError)
           ELSE IF sanitized \in Range(columns)
           THEN result' = Return("add_column", <<column_name, default_value, spreadsheet>>, FALSE,
                                 Error("Column '{column_name}' already exists",
                                       column_name), <<>>)
           ELSE result' = Raise("add_column", <<column_name, default_value, spreadsheet>>, OperationalError)

\* the UPDATE without its WHERE
UpdatedRows_NoWhere(rows, row_id, col, value) ==
    {[r EXCEPT !.cells[col] = value] : r \in rows}

\* UPDATE "table" SET "col" = ? WHERE id = ?
UpdatedRows(rows, row_id, col, value) ==
    {IF r.id = row_id THEN [r EXCEPT !.cells[col] = value] ELSE r : r \in rows}

edit_cell(row_id, column, value, spreadsheet) ==
    LET table == Or(spreadsheet, current_spreadsheet)
        sanitized_col == _sanitize_name(column)
        columns == get_columns(table)
        t == lower(table)
    IN  /\ UNCHANGED <<san, ui, rebuild, assigned, current_spreadsheet, meta, sqlite_sequence>>
        /\ IF table = None \/ table = <<>>
           THEN /\ result' = Return("edit_cell", <<row_id, column, value, spreadsheet>>, FALSE, NoSpreadsheetSelected, <<>>)
                /\ UNCHANGED tables
           ELSE IF sanitized_col = IndexError
           THEN /\ result' = Raise("edit_cell", <<row_id, column, value, spreadsheet>>, IndexError)
                /\ UNCHANGED tables
           ELSE IF sanitized_col \notin Range(columns)
           THEN /\ result' = Return("edit_cell", <<row_id, column, value, spreadsheet>>, FALSE,
                                    Error("Column '{column}' not found", column), <<>>)
                /\ UNCHANGED tables
           ELSE IF ~HasTable(table)
           THEN /\ result' = Raise("edit_cell", <<row_id, column, value, spreadsheet>>, OperationalError)
                /\ UNCHANGED tables
           ELSE /\ tables' = [tables EXCEPT ![t].rows =
                                 UpdatedRows(@, row_id, sanitized_col, value)]
                /\ IF row_id \notin RowIdsOf(t)
                   THEN result' = Return("edit_cell", <<row_id, column, value, spreadsheet>>, FALSE,
                                         Error("Row {row_id} not found", row_id), <<>>)
                   ELSE result' = Return("edit_cell", <<row_id, column, value, spreadsheet>>, TRUE, NoError, <<>>)

\* the DELETE without its WHERE
DeletedRows_NoWhere(rows, row_id) == {}

\* DELETE FROM "table" WHERE id = ?
DeletedRows(rows, row_id) == {r \in rows : r.id # row_id}

delete_row(row_id, spreadsheet) ==
    LET table == Or(spreadsheet, current_spreadsheet)
        t == lower(table)
    IN  /\ UNCHANGED <<san, ui, rebuild, assigned, current_spreadsheet, meta, sqlite_sequence>>
        /\ IF table = None \/ table = <<>>
           THEN /\ result' = Return("delete_row", <<row_id, spreadsheet>>, FALSE, NoSpreadsheetSelected, <<>>)
                /\ UNCHANGED tables
           ELSE IF ~HasTable(table)
           THEN /\ result' = Raise("delete_row", <<row_id, spreadsheet>>, OperationalError)
                /\ UNCHANGED tables
           ELSE /\ tables' = [tables EXCEPT ![t].rows = DeletedRows(@, row_id)]
                /\ IF row_id \notin RowIdsOf(t)
                   THEN result' = Return("delete_row", <<row_id, spreadsheet>>, FALSE,
                                         Error("Row {row_id} not found", row_id), <<>>)
                   ELSE result' = Return("delete_row", <<row_id, spreadsheet>>, TRUE, NoError, <<>>)

\* list.remove(item): the first occurrence goes
RemoveFirst(list, item) ==
    LET i == CHOOSE i \in 1..Len(list) :
                 list[i] = item /\ \A j \in 1..(i - 1) : list[j] # item
    IN  SubSeq(list, 1, i - 1) \o SubSeq(list, i + 1, Len(list))

\* the characters of a name as one text
RECURSIVE Literal(_)
Literal(name) == IF name = <<>> THEN "" ELSE name[1] \o Literal(Tail(name))

\* only the ids copied
CopiedRows_IdsOnly(t, columns) ==
    {[id |-> r.id, cells |-> [c \in Range(columns) |-> NULL]] : r \in tables[t].rows}

\* INSERT INTO temp (id, cols) SELECT id, cols FROM "table"; a double-quoted
\* name that is no column of the table is read by SQLite as a string literal
CopiedRows(t, columns) ==
    {[id |-> r.id,
      cells |-> [c \in Range(columns) |->
                    IF c \in DOMAIN r.cells THEN r.cells[c] ELSE Literal(c)]] :
        r \in tables[t].rows}

delete_column(column_name, spreadsheet) ==
    LET table == Or(spreadsheet, current_spreadsheet)
        sanitized == _sanitize_name(column_name)
        columns == get_columns(table)
        t == lower(table)
    IN  /\ UNCHANGED <<san, ui, rebuild, assigned, current_spreadsheet>>
        /\ IF table = None \/ table = <<>>
           THEN /\ result' = Return("delete_column", <<column_name, spreadsheet>>, FALSE, NoSpreadsheetSelected, <<>>)
                /\ UNCHANGED db
           ELSE IF sanitized = IndexError
           THEN /\ result' = Raise("delete_column", <<column_name, spreadsheet>>, IndexError)
                /\ UNCHANGED db
           ELSE IF sanitized \notin Range(columns)
           THEN /\ result' = Return("delete_column", <<column_name, spreadsheet>>, FALSE,
                                    Error("Column '{column_name}' not found",
                                          column_name), <<>>)
                /\ UNCHANGED db
           ELSE LET remaining == RemoveFirst(columns, sanitized)
                    temp_table == TempPrefix \o table
                IN  IF CreateTableFails(temp_table, remaining)
                    THEN /\ result' = Raise("delete_column", <<column_name, spreadsheet>>, OperationalError)
                         /\ UNCHANGED db
                    ELSE IF ~HasTable(table)
                    THEN \* the shadow table is there, the copy fails
                         /\ tables' = (temp_table :> EmptyTable(remaining)) @@ tables
                         /\ sqlite_sequence' = (temp_table :> 0) @@ sqlite_sequence
                         /\ result' = Raise("delete_column", <<column_name, spreadsheet>>, OperationalError)
                         /\ UNCHANGED meta
                    ELSE \* copy, DROP TABLE, RENAME TO, UPDATE _spreadsheet_meta
                         /\ tables' =
                              (table :> [columns |-> remaining,
                                         rows |-> CopiedRows(t, remaining)])
                              @@ [n \in DOMAIN tables \ {t} |-> tables[n]]
                         /\ sqlite_sequence' =
                              (table :> Max(RowIdsOf(t)))
                              @@ [n \in DOMAIN tables \ {t} |-> sqlite_sequence[n]]
                         /\ meta' = UpdateMeta(table, remaining)
                         /\ result' = Return("delete_column", <<column_name, spreadsheet>>, TRUE, NoError, <<>>)

\* what get_data returns or raises; it changes nothing
GetData(op, args, spreadsheet) ==
    LET table == Or(spreadsheet, current_spreadsheet)
        columns == get_columns(table)
    IN  IF table = None \/ table = <<>>
        THEN Return(op, args, FALSE, NoSpreadsheetSelected,
                    [spreadsheet |-> None, columns |-> <<>>, rows |-> <<>>])
        ELSE IF ~HasTable(table)
        THEN Raise(op, args, OperationalError)
        ELSE Return(op, args, TRUE, NoError,
                    [spreadsheet |-> table,
                     columns |-> <<IdColumn>> \o columns,
                     rows |-> OrderById(tables[lower(table)].rows)])

get_data(spreadsheet) ==
    /\ result' = GetData("get_data", <<spreadsheet>>, spreadsheet)
    /\ UNCHANGED <<san, ui, rebuild, assigned, db, current_spreadsheet>>

switch_spreadsheet(name) ==
    LET table == _sanitize_name(name)
    IN  /\ UNCHANGED <<san, ui, rebuild, assigned, db>>
        /\ IF table = IndexError
           THEN /\ result' = Raise("switch_spreadsheet", <<name>>, IndexError)
                /\ UNCHANGED current_spreadsheet
           ELSE IF ~_spreadsheet_exists(table)
           THEN /\ result' = Return("switch_spreadsheet", <<name>>, FALSE,
                                    Error("Spreadsheet '{name}' not found", name), <<>>)
                /\ UNCHANGED current_spreadsheet
           ELSE /\ current_spreadsheet' = table
                /\ result' = Return("switch_spreadsheet", <<name>>, TRUE, NoError,
                                    [spreadsheet |-> table])

\* csv.DictWriter: one field per name of fieldnames, None and a missing key
\* written as ''
CsvField(v) == IF v = NULL THEN "" ELSE v

CsvRecord(row, fieldnames) ==
    [i \in 1..Len(fieldnames) |->
        IF fieldnames[i] = IdColumn THEN row.id
        ELSE IF fieldnames[i] \in DOMAIN row.cells
        THEN CsvField(row.cells[fieldnames[i]])
        ELSE ""]

\* the characters of a stored text: the texts of more than one character
\* and the empty one are listed, any other text is its one character
LongTexts ==
    ("" :> <<>>) @@ ("q\",\n" :> <<"q", "\"", ",", "\n">>)
    @@ ("$7,7" :> <<"$", "7", ",", "7">>) @@ ("nan" :> <<"n", "a", "n">>)
    @@ ("bar" :> <<"b", "a", "r">>) @@ ("line" :> <<"l", "i", "n", "e">>)
    @@ ("scatter" :> <<"s", "c", "a", "t", "t", "e", "r">>)
    @@ ("pie" :> <<"p", "i", "e">>)
    @@ ("histogram" :> <<"h", "i", "s", "t", "o", "g", "r", "a", "m">>)

Chars(v) == IF v \in DOMAIN LongTexts THEN LongTexts[v] ELSE <<v>>

\* str(n) of a row id
RECURSIVE IntText(_)
IntText(n) ==
    LET digit == CHOOSE d \in Digits : d = ToString(n % 10)
    IN  IF n < 10 THEN <<digit>> ELSE Append(IntText(n \div 10), digit)

\* the fields of one written row as text: the id by str(), the rest as stored
FieldTexts(record, fieldnames) ==
    [i \in 1..Len(fieldnames) |->
        IF fieldnames[i] = IdColumn THEN IntText(record[i]) ELSE Chars(record[i])]

CsvSpecial == {",", "\"", "\r", "\n"}

\* a field written as it is, whatever it holds
CsvQuote_Never(field) == field

\* csv.QUOTE_MINIMAL: a field holding the delimiter, a quote or a line break
\* goes between quotes, its quotes doubled
RECURSIVE DoubleQuotes(_)
DoubleQuotes(field) ==
    IF field = <<>> THEN <<>>
    ELSE (IF Head(field) = "\"" THEN <<"\"", "\"">> ELSE <<Head(field)>>)
         \o DoubleQuotes(Tail(field))

CsvQuote(field) ==
    IF \E i \in 1..Len(field) : field[i] \in CsvSpecial
    THEN <<"\"">> \o DoubleQuotes(field) \o <<"\"">>
    ELSE field

\* writer.writerow: the fields joined by commas, the line ended by \r\n
RECURSIVE CsvLine(_)
CsvLine(fields) ==
    IF Len(fields) = 1 THEN CsvQuote(fields[1]) \o <<"\r", "\n">>
    ELSE CsvQuote(Head(fields)) \o <<",">> \o CsvLine(Tail(fields))

\* writeheader and writerows: the text of the file
RECURSIVE CsvLines(_, _)
CsvLines(records, fieldnames) ==
    IF records = <<>> THEN <<>>
    ELSE CsvLine(FieldTexts(Head(records), fieldnames))
         \o CsvLines(Tail(records), fieldnames)

CsvFile(fieldnames, records) ==
    CsvLine(fieldnames) \o CsvLines(records, fieldnames)

\* csv.reader over the file opened with newline='': the reader's states
\* are start_field, in_field, in_quoted, quote_in_quoted and eat_crnl
RECURSIVE ReadCsvFrom(_, _, _, _, _)
ReadCsvFrom(text, state, field, record, records) ==
    IF text = <<>>
    THEN IF state = "eat_crnl" \/ (state = "start_field" /\ record = <<>>)
         THEN records
         ELSE Append(records, Append(record, field))
    ELSE LET c == Head(text)
             rest == Tail(text)
             eol == c \in {"\r", "\n"}
         IN  CASE state = "eat_crnl" ->
                    IF eol THEN ReadCsvFrom(rest, "eat_crnl", <<>>, <<>>, records)
                    ELSE ReadCsvFrom(text, "start_field", <<>>, <<>>, records)
               [] state = "start_field" ->
                    IF eol
                    THEN ReadCsvFrom(rest, "eat_crnl", <<>>, <<>>,
                                     Append(records, Append(record, <<>>)))
                    ELSE IF c = "\"" THEN ReadCsvFrom(rest, "in_quoted", <<>>, record, records)
                    ELSE IF c = ","
                    THEN ReadCsvFrom(rest, "start_field", <<>>, Append(record, <<>>), records)
                    ELSE ReadCsvFrom(rest, "in_field", <<c>>, record, records)
               [] state = "in_field" ->
                    IF eol
                    THEN ReadCsvFrom(rest, "eat_crnl", <<>>, <<>>,
                                     Append(records, Append(record, field)))
                    ELSE IF c = ","
                    THEN ReadCsvFrom(rest, "start_field", <<>>, Append(record, field), records)
                    ELSE ReadCsvFrom(rest, "in_field", Append(field, c), record, records)
               [] state = "in_quoted" ->
                    IF c = "\"" THEN ReadCsvFrom(rest, "quote_in_quoted", field, record, records)
                    ELSE ReadCsvFrom(rest, "in_quoted", Append(field, c), record, records)
               [] state = "quote_in_quoted" ->
                    IF c = "\""
                    THEN ReadCsvFrom(rest, "in_quoted", Append(field, c), record, records)
                    ELSE IF c = ","
                    THEN ReadCsvFrom(rest, "start_field", <<>>, Append(record, field), records)
                    ELSE IF eol
                    THEN ReadCsvFrom(rest, "eat_crnl", <<>>, <<>>,
                                     Append(records, Append(record, field)))
                    ELSE ReadCsvFrom(rest, "in_field", Append(field, c), record, records)

ReadCsv(text) == ReadCsvFrom(text, "start_field", <<>>, <<>>, <<>>)

\* Path("exports") / f"{table}.csv"
DefaultPath(table) ==
    <<"e", "x", "p", "o", "r", "t", "s", "/">> \o table \o <<".", "c", "s", "v">>

\* open(path, "w") on a directory is an IsADirectoryError; the root is one
\* on every file system
IsDirectory(path) == path = <<"/">>

\* what export_csv returns or raises; the database is only read
ExportCsv(path, spreadsheet) ==
    LET table == Or(spreadsheet, current_spreadsheet)
        args == <<path, spreadsheet>>
        file == IF path = None THEN DefaultPath(table) ELSE path
        data == GetData("export_csv", args, table)
    IN  IF table = None \/ table = <<>>
        THEN Return("export_csv", args, FALSE, NoSpreadsheetSelected, <<>>)
        ELSE IF data.outcome = "raise" \/ ~data.success
        THEN data
        ELSE IF IsDirectory(file)
        THEN Raise("export_csv", args, <<"IsADirectoryError">>)
        ELSE IF \E i \in 1..Len(data.data.rows) :
                    ~(DOMAIN data.data.rows[i].cells \subseteq Range(data.data.columns))
        THEN \* DictWriter: a dict key that is no fieldname is a ValueError
             Raise("export_csv", args, <<"ValueError">>)
        ELSE Return("export_csv", args, TRUE, NoError,
                    LET records == [i \in 1..Len(data.data.rows) |->
                                       CsvRecord(data.data.rows[i], data.data.columns)]
                    IN  [path |-> file,
                         header |-> data.data.columns,
                         records |-> records,
                         written |-> CsvFile(data.data.columns, records)])

export_csv(spreadsheet) ==
    /\ result' = ExportCsv(None, spreadsheet)
    /\ UNCHANGED <<san, ui, rebuild, assigned, db, current_spreadsheet>>

\* the selection kept whatever was deleted
CurrentAfterDelete_Kept(table) == current_spreadsheet

\* if self.current_spreadsheet == table: self.current_spreadsheet = None
CurrentAfterDelete(table) ==
    IF current_spreadsheet = table THEN None ELSE current_spreadsheet

delete_spreadsheet(name) ==
    LET table == _sanitize_name(name)
    IN  /\ UNCHANGED <<san, ui, rebuild>>
        /\ IF table = IndexError
           THEN /\ result' = Raise("delete_spreadsheet", <<name>>, IndexError)
                /\ UNCHANGED <<db, current_spreadsheet, assigned>>
           ELSE IF ~_spreadsheet_exists(table)
           THEN /\ result' = Return("delete_spreadsheet", <<name>>, FALSE,
                                    Error("Spreadsheet '{name}' not found", name), <<>>)
                /\ UNCHANGED <<db, current_spreadsheet, assigned>>
           ELSE /\ tables' = [n \in DOMAIN tables \ {lower(table)} |-> tables[n]]
                /\ sqlite_sequence' =
                       [n \in DOMAIN tables \ {lower(table)} |-> sqlite_sequence[n]]
                /\ meta' = DeleteMeta(table)
                /\ assigned' = {a \in assigned : a[1] # lower(table)}
                /\ current_spreadsheet' = CurrentAfterDelete(table)
                /\ result' = Return("delete_spreadsheet", <<name>>, TRUE, NoError, <<>>)

Next ==
    \/ \E name \in RawNames, columns \in ColumnLists :
           create_spreadsheet(name, columns)
    \/ \E data \in DataDicts, spreadsheet \in Targets : add_row(data, spreadsheet)
    \/ \E column_name \in RawColumns, spreadsheet \in Targets :
           add_column(column_name, "x", spreadsheet)
    \/ \E row_id \in RowIds, column \in RawColumns, spreadsheet \in Targets :
           edit_cell(row_id, column, "x", spreadsheet)
    \/ \E row_id \in RowIds, spreadsheet \in Targets : delete_row(row_id, spreadsheet)
    \/ \E column_name \in RawColumns, spreadsheet \in Targets :
           delete_column(column_name, spreadsheet)
    \/ \E spreadsheet \in Targets : get_data(spreadsheet)
    \/ \E name \in RawNames : switch_spreadsheet(name)
    \/ \E spreadsheet \in Targets : export_csv(spreadsheet)
    \/ \E name \in RawNames : delete_spreadsheet(name)

Spec == Init /\ [][Next]_vars

----------------------------------------------------------------------------
(* Two spreadsheets, one of them under the name delete_column gives the   *)
(* shadow table of the other                                               *)

ShadowNames == {<<"T", " ">>, TempPrefix \o <<"t">>, MetaTable}

ShadowTargets == {None, <<"t">>}

ShadowLists == { <<<<"B">>, <<"a">>>>, <<>> }

ShadowDicts == { << <<<<"a">>, "x">> >> }

NextShadow ==
    \/ \E name \in ShadowNames, columns \in ShadowLists :
           create_spreadsheet(name, columns)
    \/ \E data \in ShadowDicts, spreadsheet \in ShadowTargets :
           add_row(data, spreadsheet)
    \/ \E column_name \in RawColumns, spreadsheet \in ShadowTargets :
           add_column(column_name, "x", spreadsheet)
    \/ \E spreadsheet \in ShadowTargets : edit_cell(1, <<"a">>, "y", spreadsheet)
    \/ \E spreadsheet \in ShadowTargets : delete_row(1, spreadsheet)
    \/ \E column_name \in RawColumns, spreadsheet \in ShadowTargets :
           delete_column(column_name, spreadsheet)
    \/ \E spreadsheet \in ShadowTargets : get_data(spreadsheet)
    \/ \E name \in ShadowNames : switch_spreadsheet(name)
    \/ \E spreadsheet \in ShadowTargets : export_csv(spreadsheet)
    \/ \E name \in ShadowNames : delete_spreadsheet(name)

SpecShadow == Init /\ [][NextShadow]_vars

----------------------------------------------------------------------------
(* The sanitizer alone, on every string of SanChars up to MaxLen *)

InitSan ==
    /\ meta = <<>>
    /\ tables = <<>>
    /\ sqlite_sequence = <<>>
    /\ current_spreadsheet = None
    /\ result = Return("__init__", <<>>, TRUE, NoError, <<>>)
    /\ x \in StringsUpTo(MaxLen)
    /\ s = Unset
    /\ agent = Unset
    /\ chart = NoChart
    /\ rebuild = NoRebuild
    /\ assigned = {}

Sanitize ==
    /\ s = Unset
    /\ s' = _sanitize_name(x)
    /\ UNCHANGED <<db, current_spreadsheet, result, x, ui, rebuild, assigned>>

NextSan == Sanitize

SpecSan == InitSan /\ [][NextSan]_vars

----------------------------------------------------------------------------
(* SpreadsheetAgent: the REPL of run, with process_command and               *)
(* handle_special_command                                                    *)

EOFError == <<"EOFError">>
KeyboardInterrupt == <<"KeyboardInterrupt">>

\* what console.input gives: a line, end of input, or Ctrl-C
UserInputs ==
    { EOFError, KeyboardInterrupt,
      <<>>,
      <<" ">>,
      <<"!", "q", "u", "i", "t">>,
      <<"!", "E", "X", "I", "T", " ">>,
      <<"!", "q">>,
      <<"!", "h", "e", "l", "p">>,
      <<"!", "s", "h", "o", "w">>,
      <<"!", "l", "i", "s", "t">>,
      <<"!", "e", "x", "p", "o", "r", "t">>,
      <<"!", "e", "x", "p", "o", "r", "t", " ", "/">>,
      <<"!", "e", "x", "p", "o", "r", "t", " ", "o">>,
      <<"!", "v", "o", "i", "c", "e">>,
      <<"!", "x">>,
      <<" ", "!", "q">>,
      <<"h", "i">> }

\* what the transcription of a recording gives: nothing, or a sentence
VoiceTexts == {None, <<"h", "i">>}

QuitCommands == {<<"!", "q", "u", "i", "t">>, <<"!", "e", "x", "i", "t">>, <<"!", "q">>}
HelpCommands == {<<"!", "h", "e", "l", "p">>, <<"!", "h">>}
ShowCommands == {<<"!", "s", "h", "o", "w">>, <<"!", "d", "i", "s", "p", "l", "a", "y">>, <<"!", "d">>}
ListCommands == {<<"!", "l", "i", "s", "t">>, <<"!", "l", "s">>}
VoiceCommands == {<<"!", "v", "o", "i", "c", "e">>, <<"!", "v">>}
ExportPrefix == <<"!", "e", "x", "p", "o", "r", "t">>

\* str.split(maxsplit=1) of a stripped string
SplitOnce(cmd) ==
    IF \E i \in 1..Len(cmd) : cmd[i] \in Whitespace
    THEN LET i == CHOOSE i \in 1..Len(cmd) :
                      /\ cmd[i] \in Whitespace
                      /\ \A j \in 1..(i - 1) : cmd[j] \notin Whitespace
         IN  <<SubSeq(cmd, 1, i - 1), lstrip(SubSeq(cmd, i + 1, Len(cmd)))>>
    ELSE <<cmd>>

\* SELECT name, columns, created_at FROM _spreadsheet_meta ORDER BY created_at
ListSpreadsheets ==
    Return("list_spreadsheets", <<>>, TRUE, NoError,
           [spreadsheets |-> [i \in 1..Len(meta) |->
                                 [name |-> meta[i].name,
                                  columns |-> IF meta[i].columns # <<>>
                                              THEN Split(meta[i].columns) ELSE <<>>]],
            current |-> current_spreadsheet])

\* what a command leaves behind: whether the loop runs on, the exception that
\* left the handler (None when it returned), what was shown, and the last
\* call made on the manager
\* awaited: the command got as far as an await that gives control back to
\* the event loop (client.query)
Handled(running, shown, call) ==
    [running |-> running, raised |-> None, shown |-> shown, call |-> call,
     awaited |-> FALSE]

Raised(exception, call) ==
    [running |-> TRUE, raised |-> exception, shown |-> "none", call |-> call,
     awaited |-> FALSE]

\* await self.client.query(command) and the responses, shown as text
Queried(call) ==
    [running |-> TRUE, raised |-> None, shown |-> "text", call |-> call,
     awaited |-> TRUE]

\* process_command and handle_special_command; query_fails says whether
\* client.query or receive_response raises, voice_text is what
\* get_voice_input returns
RECURSIVE process_command(_, _, _)
handle_special_command(command, query_fails, voice_text) ==
    LET cmd == strip(lower(command))
    IN  IF cmd \in QuitCommands THEN Handled(FALSE, "none", result)
        ELSE IF cmd \in HelpCommands THEN Handled(TRUE, "help", result)
        ELSE IF cmd \in ShowCommands
        THEN LET data == GetData("get_data", <<None>>, None)
             IN  IF data.outcome = "raise" THEN Raised(data.error.arg, data)
                 ELSE IF data.success THEN Handled(TRUE, "spreadsheet", data)
                 ELSE Handled(TRUE, "info", data)
        ELSE IF cmd \in ListCommands THEN Handled(TRUE, "list", ListSpreadsheets)
        ELSE IF HasPrefix(cmd, ExportPrefix)
        THEN LET parts == SplitOnce(cmd)
                 filename == IF Len(parts) > 1 THEN parts[2] ELSE None
                 exported == ExportCsv(filename, None)
             IN  IF exported.outcome = "raise" THEN Raised(exported.error.arg, exported)
                 ELSE IF exported.success THEN Handled(TRUE, "success", exported)
                 ELSE Handled(TRUE, "error", exported)
        ELSE IF cmd \in VoiceCommands
        THEN IF ~agent.voice_available THEN Handled(TRUE, "error", result)
             ELSE IF voice_text # None /\ voice_text # <<>>
             THEN process_command(voice_text, query_fails, None)
             ELSE Handled(TRUE, "none", result)
        ELSE Handled(TRUE, "error", result)

process_command(command, query_fails, voice_text) ==
    IF strip(command) = <<>> THEN Handled(TRUE, "none", result)
    ELSE IF HasPrefix(command, <<"!">>)
    THEN handle_special_command(command, query_fails, voice_text)
    ELSE IF ~agent.client THEN Handled(TRUE, "error", result)
    ELSE IF query_fails
    THEN \* except Exception as e: show_error(...)
         Handled(TRUE, "error", result)
    ELSE Queried(result)

CancelledError == <<"CancelledError">>

\* what await self.client.disconnect() does: it returns at once, it gives
\* control to the event loop before it returns, or it raises
Disconnects == {"returns", "suspends", "raises"}

\* the finally block of run: disconnect the client if there is one, then
\* manager.close(). An exception out of disconnect, or the cancellation of
\* the task delivered while disconnect is suspended, skips manager.close()
Finally(a, disconnect) ==
    IF ~a.client THEN [a EXCEPT !.closed = TRUE]
    ELSE IF disconnect = "raises" \/ (disconnect = "suspends" /\ a.cancelling)
    THEN [a EXCEPT !.cancelling = FALSE]
    ELSE [a EXCEPT !.disconnected = TRUE, !.closed = TRUE]

\* the last spreadsheet of the list
First_Last(existing) == existing[Len(existing)].name

\* existing["spreadsheets"][0]["name"]
First(existing) == existing[1].name

\* how setup_client goes: the client is created and connected, an
\* exception comes before self.client is assigned, or connect() raises
Setups == {"connected", "raised", "connect_raised"}

\* run up to the loop: the first spreadsheet found is selected, the client
\* is set up
Start(setup, disconnect) ==
    LET existing == ListSpreadsheets.data.spreadsheets
        first == First(existing)
    IN  /\ agent.pc = "start"
        /\ IF existing # <<>> /\ current_spreadsheet = None
              /\ _spreadsheet_exists(_sanitize_name(first))
           THEN /\ current_spreadsheet' = _sanitize_name(first)
                /\ result' = Return("switch_spreadsheet", <<first>>, TRUE, NoError,
                                    [spreadsheet |-> _sanitize_name(first)])
           ELSE UNCHANGED <<current_spreadsheet, result>>
        /\ IF setup = "connected"
           THEN agent' = [agent EXCEPT !.pc = "loop", !.client = TRUE]
           ELSE agent' = Finally([agent EXCEPT !.pc = "done", !.ended_by = "fatal",
                                               !.shown = "fatal",
                                               !.client = (setup = "connect_raised")],
                                 disconnect)
        /\ UNCHANGED <<db, san, chart, rebuild, assigned>>

\* one turn of the while loop: read a line, process it. Ctrl-C at the prompt:
\* run is the main task of asyncio.run, whose SIGINT handler answers the
\* first Ctrl-C by cancelling that task (input goes on waiting, no
\* KeyboardInterrupt) and raises KeyboardInterrupt from the second on. The
\* cancellation reaches run at its next await that suspends.
Turn(user_input, query_fails, voice_text, disconnect) ==
    LET done == process_command(user_input, query_fails, voice_text)
    IN  /\ agent.pc = "loop"
        /\ UNCHANGED <<db, current_spreadsheet, san, chart, rebuild, assigned>>
        /\ IF user_input = EOFError
           THEN /\ agent' = Finally([agent EXCEPT !.pc = "done", !.ended_by = "eof",
                                                  !.input = user_input,
                                                  !.shown = "none"], disconnect)
                /\ UNCHANGED result
           ELSE IF user_input = KeyboardInterrupt
           THEN /\ agent' = IF agent.interrupts = 0
                            THEN [agent EXCEPT !.interrupts = 1, !.cancelling = TRUE,
                                               !.input = user_input, !.shown = "none"]
                            ELSE [agent EXCEPT !.interrupts = 2,
                                               !.input = user_input, !.shown = "hint"]
                /\ UNCHANGED result
           ELSE IF done.raised # None
           THEN \* except Exception as e: show_error(f"Fatal error: {e}")
                /\ agent' = Finally([agent EXCEPT !.pc = "done", !.ended_by = "fatal",
                                                  !.input = user_input,
                                                  !.shown = "fatal"], disconnect)
                /\ result' = done.call
           ELSE IF done.awaited /\ agent.cancelling
           THEN \* CancelledError out of client.query: no except clause takes it
                /\ agent' = Finally([agent EXCEPT !.pc = "done",
                                                  !.ended_by = "cancelled",
                                                  !.input = user_input,
                                                  !.shown = "none",
                                                  !.cancelling = FALSE], disconnect)
                /\ UNCHANGED result
           ELSE IF ~done.running
           THEN /\ agent' = Finally([agent EXCEPT !.pc = "done", !.ended_by = "quit",
                                                  !.input = user_input,
                                                  !.shown = done.shown], disconnect)
                /\ result' = done.call
           ELSE /\ agent' = [agent EXCEPT !.input = user_input, !.shown = done.shown]
                /\ result' = done.call

\* the database file as an earlier session left it: empty, one spreadsheet
\* with or without a row, or two spreadsheets of which u was created first;
\* nothing is selected in a new process
InitAgent ==
    /\ \E stored \in {0, 1, 2, 3} :
          /\ meta = IF stored = 0 THEN <<>>
                    ELSE IF stored = 3
                    THEN <<[name |-> <<"u">>, columns |-> <<"a">>],
                           [name |-> <<"t">>, columns |-> <<"a">>]>>
                    ELSE <<[name |-> <<"t">>, columns |-> <<"a">>]>>
          /\ tables = IF stored = 0 THEN <<>>
                      ELSE IF stored = 3
                      THEN (<<"u">> :> EmptyTable(<<<<"a">>>>))
                           @@ (<<"t">> :> EmptyTable(<<<<"a">>>>))
                      ELSE (<<"t">> :> [columns |-> <<<<"a">>>>,
                                        rows |-> IF stored = 1 THEN {}
                                                 ELSE {[id |-> 1,
                                                        cells |-> (<<"a">> :> "x")]}])
          /\ sqlite_sequence = IF stored = 0 THEN <<>>
                               ELSE IF stored = 3 THEN (<<"u">> :> 0) @@ (<<"t">> :> 0)
                               ELSE (<<"t">> :> stored - 1)
    /\ current_spreadsheet = None
    /\ result = Return("__init__", <<>>, TRUE, NoError, <<>>)
    /\ x = Unset
    /\ s = Unset
    /\ agent \in [pc : {"start"}, client : {FALSE}, voice_available : BOOLEAN,
                  input : {None}, shown : {"none"}, ended_by : {"none"},
                  interrupts : {0}, cancelling : {FALSE},
                  disconnected : {FALSE}, closed : {FALSE}]
    /\ chart = NoChart
    /\ rebuild = NoRebuild
    /\ assigned = HandedOut

\* the tools the model calls while a query is processed reach the manager
NextAgent ==
    \/ \E setup \in Setups, disconnect \in Disconnects : Start(setup, disconnect)
    \/ \E user_input \in UserInputs, query_fails \in BOOLEAN, voice_text \in VoiceTexts,
          disconnect \in Disconnects :
           Turn(user_input, query_fails, voice_text, disconnect)
    \/ /\ agent.pc = "loop"
       /\ create_spreadsheet(<<"t">>, <<<<"a">>>>)
    \/ /\ agent.pc = "loop"
       /\ add_row(<< <<<<"a">>, "x">> >>, None)

SpecAgent == InitAgent /\ [][NextAgent]_vars

----------------------------------------------------------------------------
(* export_csv over every table state of one spreadsheet t(b, a) with up to *)
(* MaxRows rows, the cells of a holding the texts a CSV writer must quote   *)

CsvValues == {NULL, "", "x", ",", "\"", "\r", "\n", "q\",\n"}

CsvCells ==
    {(<<"b">> :> b) @@ (<<"a">> :> a) : b \in {NULL, "x"}, a \in CsvValues}

InitCsv ==
    /\ meta = <<[name |-> <<"t">>, columns |-> <<"b", ",", "a">>]>>
    /\ \E ids \in SUBSET (1..MaxRows) :
          \E stored \in [ids -> CsvCells] :
              tables = (<<"t">> :>
                           [columns |-> <<<<"b">>, <<"a">>>>,
                            rows |-> {[id |-> i, cells |-> stored[i]] : i \in ids}])
    /\ sqlite_sequence = (<<"t">> :> MaxRows)
    /\ current_spreadsheet = <<"t">>
    /\ result = Return("__init__", <<>>, TRUE, NoError, <<>>)
    /\ x = Unset
    /\ s = Unset
    /\ agent = Unset
    /\ chart = NoChart
    /\ rebuild = NoRebuild
    /\ assigned = HandedOut

NextCsv ==
    \/ export_csv(None)
    \/ get_data(None)
    \/ \E row_id \in 1..MaxRows : delete_row(row_id, None)

SpecCsv == InitCsv /\ [][NextCsv]_vars

----------------------------------------------------------------------------
(* plot_data_tool: the classification of the columns and the choice of the  *)
(* chart                                                                    *)

MaxPlotRows == 2

\* str.replace(old, "")
RECURSIVE Remove(_, _)
Remove(str, old) ==
    IF str = <<>> THEN <<>>
    ELSE IF Head(str) = old THEN Remove(Tail(str), old)
    ELSE <<Head(str)>> \o Remove(Tail(str), old)

\* digits, single underscores between them allowed
IsDigits(u) ==
    /\ u # <<>>
    /\ \A i \in 1..Len(u) :
           \/ u[i] \in Digits
           \/ /\ u[i] = "_"
              /\ 1 < i /\ i < Len(u)
              /\ u[i - 1] \in Digits /\ u[i + 1] \in Digits

\* digits with an optional point: 7  7.  7.7  .7
IsDecimal(u) ==
    \/ IsDigits(u)
    \/ \E k \in 1..Len(u) :
           /\ u[k] = "."
           /\ LET int == SubSeq(u, 1, k - 1)
                  frac == SubSeq(u, k + 1, Len(u))
              IN  \/ IsDigits(int) /\ (frac = <<>> \/ IsDigits(frac))
                  \/ int = <<>> /\ IsDigits(frac)

Unsigned(u) == IF u # <<>> /\ u[1] \in {"+", "-"} THEN Tail(u) ELSE u

\* float(str) succeeds: surrounding whitespace, a sign, a decimal with an
\* optional exponent, or inf, infinity, nan in any case
IsFloat(str) ==
    LET u == Unsigned(strip(str))
    IN  \/ lower(u) \in {<<"i", "n", "f">>, <<"n", "a", "n">>,
                         <<"i", "n", "f", "i", "n", "i", "t", "y">>}
        \/ IsDecimal(u)
        \/ \E k \in 1..Len(u) :
               /\ u[k] \in {"e", "E"}
               /\ IsDecimal(SubSeq(u, 1, k - 1))
               /\ IsDigits(Unsigned(SubSeq(u, k + 1, Len(u))))

\* if val: a None and an empty text are skipped
Truthy(val) == val # NULL /\ val # ""

\* some row holds a value that float() takes once its , and $ are removed
is_numeric_column(col, rows) ==
    \E i \in 1..Len(rows) :
        LET val == IF col \in DOMAIN rows[i].cells THEN rows[i].cells[col] ELSE ""
        IN  /\ Truthy(val)
            /\ IsFloat(Remove(Remove(Chars(val), ","), "$"))

\* [c for c in cols if keep(c)]
RECURSIVE Filter(_, _)
Filter(cols, keep) ==
    IF cols = <<>> THEN <<>>
    ELSE (IF Head(cols) \in keep THEN <<Head(cols)>> ELSE <<>>) \o Filter(Tail(cols), keep)

PlotTypes == {"bar", "line", "scatter", "pie", "histogram"}

\* one numeric column always drawn as a histogram
AutoPlotType_NumericOnly(numeric_cols, categorical_cols) ==
    IF Len(numeric_cols) >= 2 THEN "scatter"
    ELSE IF Len(numeric_cols) = 1 THEN "histogram"
    ELSE "bar"

\* if not plot_type: the chart chosen from the classification
AutoPlotType(numeric_cols, categorical_cols) ==
    IF Len(numeric_cols) >= 2 THEN "scatter"
    ELSE IF Len(numeric_cols) = 1 /\ categorical_cols # <<>> THEN "bar"
    ELSE IF Len(numeric_cols) = 1 THEN "histogram"
    ELSE IF categorical_cols # <<>> THEN "bar"
    ELSE "bar"

\* what the tool answers: the chart it made, or an error
Chart(args, plot_type, x_column, y_column, numeric_cols, categorical_cols, error) ==
    [args |-> args, plot_type |-> plot_type, x_column |-> x_column,
     y_column |-> y_column, numeric_cols |-> numeric_cols,
     categorical_cols |-> categorical_cols, error |-> error]

\* the choice of chart and axes once the columns are classified
\* (lines 444-470 and the unknown type of line 570)
Plotted(args, plot_type, plottable_cols, numeric_cols, categorical_cols, saved) ==
    LET chosen == IF plot_type = <<>>
                  THEN AutoPlotType(numeric_cols, categorical_cols)
                  ELSE IF \E t \in PlotTypes : Chars(t) = plot_type
                  THEN CHOOSE t \in PlotTypes : Chars(t) = plot_type
                  ELSE "unknown"
        x_column == IF categorical_cols # <<>> THEN categorical_cols[1]
                    ELSE IF numeric_cols # <<>> THEN numeric_cols[1]
                    ELSE plottable_cols[1]
        y_candidates == Filter(numeric_cols, Range(numeric_cols) \ {x_column})
        y_column == IF chosen \notin {"histogram", "pie"} /\ numeric_cols # <<>>
                    THEN IF y_candidates # <<>> THEN y_candidates[1] ELSE numeric_cols[1]
                    ELSE <<>>
    IN  Chart(args, chosen, x_column, y_column, numeric_cols, categorical_cols,
              IF chosen = "unknown" THEN "Unknown plot type"
              ELSE IF saved THEN "" ELSE "Error creating plot")

\* the columns told apart, numeric or categorical
Classified(args, plot_type, plottable_cols, numeric, saved) ==
    Plotted(args, plot_type, plottable_cols,
            Filter(plottable_cols, numeric),
            Filter(plottable_cols, Range(plottable_cols) \ numeric), saved)

\* plot_data_tool with the plot_type argument; the other arguments are left
\* out by the caller; saved says whether matplotlib drew and saved the figure
plot_data_tool(plot_type_arg, saved) ==
    \E data \in {GetData("get_data", <<None>>, None)} :
        /\ result' = data
        /\ UNCHANGED <<db, current_spreadsheet, san, agent, rebuild, assigned>>
        /\ IF data.outcome = "raise" \/ ~data.success
           THEN chart' = [NoChart EXCEPT !.args = <<plot_type_arg>>,
                                         !.error = "No spreadsheet selected"]
           ELSE IF data.data.rows = <<>>
           THEN chart' = [NoChart EXCEPT !.args = <<plot_type_arg>>,
                                         !.error = "No data to plot"]
           ELSE \E plottable_cols \in
                       {Filter(data.data.columns, Range(data.data.columns) \ {IdColumn})} :
                    IF plottable_cols = <<>>
                    THEN chart' = [NoChart EXCEPT !.args = <<plot_type_arg>>,
                                                  !.error = "No plottable columns"]
                    ELSE chart' = Classified(
                             <<plot_type_arg>>, strip(lower(plot_type_arg)), plottable_cols,
                             {c \in Range(plottable_cols) :
                                 is_numeric_column(c, data.data.rows)}, saved)

\* the texts a cell of column a holds; b holds a number or a word, c a word
PlotValues == {NULL, "", "x", "7", "$7,7", "nan"}

PlotColumns == {<<<<"a">>>>, <<<<"b">>, <<"a">>>>, <<<<"c">>, <<"b">>, <<"a">>>>}

PlotCells(columns) ==
    {cells \in [Range(columns) -> PlotValues] :
        /\ <<"b">> \in Range(columns) => cells[<<"b">>] \in {"7", "x"}
        /\ <<"c">> \in Range(columns) => cells[<<"c">>] = "x"}

PlotArgs == {<<>>, <<" ">>, <<"P", "i", "e">>, <<"z">>}

InitPlot ==
    /\ \E columns \in PlotColumns :
          /\ meta = <<[name |-> <<"t">>, columns |-> Join(columns)]>>
          /\ \E ids \in SUBSET (1..MaxPlotRows) :
                \E stored \in [ids -> PlotCells(columns)] :
                    tables = (<<"t">> :>
                                 [columns |-> columns,
                                  rows |-> {[id |-> i, cells |-> stored[i]] : i \in ids}])
    /\ sqlite_sequence = (<<"t">> :> MaxPlotRows)
    /\ current_spreadsheet = <<"t">>
    /\ result = Return("__init__", <<>>, TRUE, NoError, <<>>)
    /\ x = Unset
    /\ s = Unset
    /\ agent = Unset
    /\ chart = NoChart
    /\ rebuild = NoRebuild
    /\ assigned = HandedOut

NextPlot ==
    \E plot_type \in PlotArgs, saved \in BOOLEAN : plot_data_tool(plot_type, saved)

SpecPlot == InitPlot /\ [][NextPlot]_vars

----------------------------------------------------------------------------
(* Spreadsheets created under names that differ only in case, punctuation  *)
(* and surrounding blanks                                                  *)

\* "My List!"
MyListBang == <<"M", "y", " ", "L", "i", "s", "t", "!">>
\* "my_list " with a trailing space
MyListSpace == <<"m", "y", "_", "l", "i", "s", "t", " ">>
\* "MY LIST?"
MyListQuery == <<"M", "Y", " ", "L", "I", "S", "T", "?">>

ListNames == {MyListBang, MyListSpace, MyListQuery}

NextNames ==
    \/ \E name \in ListNames : create_spreadsheet(name, <<<<"a">>>>)
    \/ \E name \in ListNames : switch_spreadsheet(name)
    \/ \E name \in ListNames : delete_spreadsheet(name)
    \/ add_row(<< <<<<"a">>, "x">> >>, None)
    \/ get_data(None)

SpecNames == Init /\ [][NextNames]_vars

----------------------------------------------------------------------------
(* Rows added to a table whose columns were added to and deleted from      *)

ThreeColumns == <<<<"c">>, <<"b">>, <<"a">>>>

ColumnNames == {<<"a">>, <<"B">>, <<"c">>, <<"d">>}

ColumnDicts ==
    { << <<<<"a">>, "x">> >>,
      << <<<<"B">>, "y">>, <<<<"d">>, "x">> >>,
      << <<<<"c">>, "x">>, <<<<"a">>, "y">> >> }

InitColumns ==
    /\ meta = <<[name |-> <<"t">>, columns |-> Join(ThreeColumns)]>>
    /\ tables = (<<"t">> :> EmptyTable(ThreeColumns))
    /\ sqlite_sequence = (<<"t">> :> 0)
    /\ current_spreadsheet = <<"t">>
    /\ result = Return("__init__", <<>>, TRUE, NoError, <<>>)
    /\ x = Unset
    /\ s = Unset
    /\ agent = Unset
    /\ chart = NoChart
    /\ rebuild = NoRebuild
    /\ assigned = {}

NextColumns ==
    \/ \E data \in ColumnDicts : add_row(data, None)
    \/ \E column_name \in ColumnNames, default_value \in {"", "x"} :
           add_column(column_name, default_value, None)
    \/ \E column_name \in ColumnNames : delete_column(column_name, None)
    \/ \E row_id \in RowIds : delete_row(row_id, None)
    \/ get_data(None)

SpecColumns == InitColumns /\ [][NextColumns]_vars

----------------------------------------------------------------------------
(* delete_column statement by statement: the connection is in sqlite3's    *)
(* default mode, where CREATE TABLE is committed on its own and the first  *)
(* INSERT opens a transaction that lasts until conn.commit()               *)

\* what the database file holds: the last committed state
Stored ==
    IF rebuild.in_transaction THEN rebuild.disk
    ELSE [meta |-> meta, tables |-> tables, sqlite_sequence |-> sqlite_sequence]

\* the snapshot a transaction that starts now goes back to on rollback
Begin == [meta |-> meta, tables |-> tables, sqlite_sequence |-> sqlite_sequence]

\* the checks of delete_column passed: CREATE TABLE "_temp_<table>"
delete_column_create(column_name, spreadsheet) ==
    LET table == Or(spreadsheet, current_spreadsheet)
        sanitized == _sanitize_name(column_name)
        columns == get_columns(table)
    IN  /\ rebuild.pc = "idle"
        /\ table # None /\ table # <<>>
        /\ sanitized # IndexError
        /\ sanitized \in Range(columns)
        /\ UNCHANGED <<san, ui, assigned, current_spreadsheet, meta>>
        /\ LET remaining == RemoveFirst(columns, sanitized)
               temp_table == TempPrefix \o table
           IN  IF CreateTableFails(temp_table, remaining)
               THEN /\ result' = Raise("delete_column", <<column_name, spreadsheet>>,
                                       OperationalError)
                    /\ UNCHANGED <<tables, sqlite_sequence, rebuild>>
               ELSE /\ tables' = (temp_table :> EmptyTable(remaining)) @@ tables
                    /\ sqlite_sequence' = (temp_table :> 0) @@ sqlite_sequence
                    /\ rebuild' = [rebuild EXCEPT !.pc = "created",
                                                  !.args = <<column_name, spreadsheet>>,
                                                  !.table = table,
                                                  !.remaining = remaining]
                    /\ UNCHANGED result

\* INSERT INTO "_temp_<table>" (id, ...) SELECT id, ... FROM "<table>"
delete_column_copy ==
    LET table == rebuild.table
        temp_table == TempPrefix \o table
        t == lower(table)
    IN  /\ rebuild.pc = "created"
        /\ UNCHANGED <<san, ui, assigned, current_spreadsheet, meta>>
        /\ IF ~HasTable(table)
           THEN /\ result' = Raise("delete_column", rebuild.args, OperationalError)
                /\ rebuild' = [rebuild EXCEPT !.pc = "idle"]
                /\ UNCHANGED <<tables, sqlite_sequence>>
           ELSE /\ tables' = [tables EXCEPT ![temp_table].rows =
                                                CopiedRows(t, rebuild.remaining)]
                /\ sqlite_sequence' = [sqlite_sequence EXCEPT
                                          ![temp_table] = Max(RowIdsOf(t))]
                /\ rebuild' = [rebuild EXCEPT
                                  !.pc = "copied",
                                  !.in_transaction = TRUE,
                                  !.disk = IF rebuild.in_transaction THEN @ ELSE Begin]
                /\ UNCHANGED result

\* DROP TABLE "<table>"
delete_column_drop ==
    LET t == lower(rebuild.table)
    IN  /\ rebuild.pc = "copied"
        /\ UNCHANGED <<san, ui, assigned, current_spreadsheet, meta, result>>
        /\ tables' = [n \in DOMAIN tables \ {t} |-> tables[n]]
        /\ sqlite_sequence' = [n \in DOMAIN tables \ {t} |-> sqlite_sequence[n]]
        /\ rebuild' = [rebuild EXCEPT !.pc = "dropped"]

\* ALTER TABLE "_temp_<table>" RENAME TO "<table>"
delete_column_rename ==
    LET table == rebuild.table
        temp_table == TempPrefix \o table
    IN  /\ rebuild.pc = "dropped"
        /\ UNCHANGED <<san, ui, assigned, current_spreadsheet, meta, result>>
        /\ tables' = (table :> tables[temp_table])
                     @@ [n \in DOMAIN tables \ {temp_table} |-> tables[n]]
        /\ sqlite_sequence' = (table :> sqlite_sequence[temp_table])
                     @@ [n \in DOMAIN tables \ {temp_table} |-> sqlite_sequence[n]]
        /\ rebuild' = [rebuild EXCEPT !.pc = "renamed"]

\* UPDATE _spreadsheet_meta SET columns = ? WHERE name = ?
delete_column_update ==
    /\ rebuild.pc = "renamed"
    /\ UNCHANGED <<san, ui, assigned, current_spreadsheet, tables, sqlite_sequence, result>>
    /\ meta' = UpdateMeta(rebuild.table, rebuild.remaining)
    /\ rebuild' = [rebuild EXCEPT !.pc = "updated"]

\* self.conn.commit() and the return of delete_column
delete_column_commit ==
    /\ rebuild.pc = "updated"
    /\ UNCHANGED <<san, ui, assigned, current_spreadsheet, db>>
    /\ rebuild' = [rebuild EXCEPT !.pc = "idle", !.in_transaction = FALSE]
    /\ result' = Return("delete_column", rebuild.args, TRUE, NoError, <<>>)

\* an exception (Ctrl-C, say) between two statements of delete_column: the
\* call ends there, what it executed stays in the connection, uncommitted
Interrupt ==
    /\ rebuild.pc \in {"created", "copied", "dropped", "renamed", "updated"}
    /\ UNCHANGED <<san, ui, assigned, current_spreadsheet, db>>
    /\ rebuild' = [rebuild EXCEPT !.pc = "idle"]
    /\ result' = Raise("delete_column", rebuild.args, KeyboardInterrupt)

\* the self.conn.commit() that ends a later add_row or delete_row: it
\* commits whatever the connection holds
commit ==
    /\ rebuild.pc = "idle"
    /\ rebuild.in_transaction
    /\ result.op \in {"add_row", "delete_row"} /\ result.success
    /\ UNCHANGED <<san, ui, assigned, current_spreadsheet, db, result>>
    /\ rebuild' = [rebuild EXCEPT !.in_transaction = FALSE]

\* self.conn.close(), or the process ending: an open transaction is rolled back
close ==
    /\ rebuild.pc = "idle"
    /\ UNCHANGED <<san, ui, assigned, current_spreadsheet, result>>
    /\ meta' = Stored.meta
    /\ tables' = Stored.tables
    /\ sqlite_sequence' = Stored.sqlite_sequence
    /\ rebuild' = [rebuild EXCEPT !.pc = "closed", !.in_transaction = FALSE]

InitRebuild ==
    /\ meta = <<[name |-> <<"t">>, columns |-> Join(<<<<"b">>, <<"a">>>>)]>>
    /\ tables = (<<"t">> :> EmptyTable(<<<<"b">>, <<"a">>>>))
    /\ sqlite_sequence = (<<"t">> :> 0)
    /\ current_spreadsheet = <<"t">>
    /\ result = Return("__init__", <<>>, TRUE, NoError, <<>>)
    /\ x = Unset
    /\ s = Unset
    /\ agent = Unset
    /\ chart = NoChart
    /\ rebuild = NoRebuild
    /\ assigned = {}

NextRebuild ==
    \/ \E column_name \in RawColumns : delete_column_create(column_name, None)
    \/ delete_column_copy
    \/ delete_column_drop
    \/ delete_column_rename
    \/ delete_column_update
    \/ delete_column_commit
    \/ Interrupt
    \/ commit
    \/ close
    \/ rebuild.pc = "idle" /\ \E data \in ShadowDicts : add_row(data, None)
    \/ rebuild.pc = "idle" /\ delete_row(1, None)
    \/ rebuild.pc = "idle" /\ get_data(None)

SpecRebuild == InitRebuild /\ [][NextRebuild]_vars

----------------------------------------------------------------------------
(* Properties *)

RegisteredNames == {meta[i].name : i \in 1..Len(meta)}

\* C1: whatever calls were made, successful or failing, a name has a row in
\* the registry if and only if a physical spreadsheet table of that name exists
C1_RegistryIffTable == RegisteredNames = DOMAIN tables

\* both spreadsheets exist and delete_column has just failed on the name of
\* its shadow table
C1_Witness ==
    /\ Cardinality(DOMAIN tables) = 2
    /\ result.op = "delete_column"
    /\ result.outcome = "raise"

\* C2: for every registered spreadsheet, after any add_column and
\* delete_column calls, the columns of the physical table other than id are
\* the registry's column list, in the same order
C2_ColumnsMatchRegistry ==
    \A name \in RegisteredNames :
        /\ name \in DOMAIN tables
        /\ tables[name].columns = get_columns(name)

\* a column has just been deleted from a table that has rows
C2_Witness ==
    /\ result.op = "delete_column"
    /\ result.outcome = "return"
    /\ result.success
    /\ \E name \in RegisteredNames :
           /\ Len(get_columns(name)) = 1
           /\ tables[name].rows # {}

\* C3: a successful delete_column(c) keeps the row ids of the table and, for
\* every row and every column other than c, the cell value; only c disappears
C3_DeleteColumnKeepsRows ==
    [][(result'.op = "delete_column" /\ result'.success) =>
          LET t == lower(Or(result'.args[2], current_spreadsheet))
              c == _sanitize_name(result'.args[1])
              kept == Range(tables[t].columns) \ {c}
          IN  /\ c \in Range(tables[t].columns)
              /\ Range(tables'[t].columns) = kept
              /\ {r.id : r \in tables'[t].rows} = {r.id : r \in tables[t].rows}
              /\ Cardinality(tables'[t].rows) = Cardinality(tables[t].rows)
              /\ \A r \in tables[t].rows : \E q \in tables'[t].rows :
                     /\ q.id = r.id
                     /\ \A col \in kept : q.cells[col] = r.cells[col]
      ]_vars

\* a column was deleted from a table of two rows, and a value is left
C3_Witness ==
    /\ result.op = "delete_column"
    /\ result.success
    /\ \E t \in DOMAIN tables :
           /\ Cardinality(tables[t].rows) = 2
           /\ Len(tables[t].columns) = 1
           /\ \E r \in tables[t].rows : r.cells[tables[t].columns[1]] # NULL

\* the calls that take the selected spreadsheet when given no target; the
\* target is their last argument
TargetOps == {"add_row", "add_column", "edit_cell", "delete_row",
              "delete_column", "get_data", "export_csv"}

\* C4: delete_spreadsheet on the selected table leaves current_spreadsheet
\* None; while it is None every call without an explicit target returns
\* success=false with "No spreadsheet selected"; and it stays None until a
\* create_spreadsheet or a switch_spreadsheet succeeds
C4_DeleteClearsSelection ==
    [][/\ ( /\ result'.op = "delete_spreadsheet"
            /\ result'.success
            /\ _sanitize_name(result'.args[1]) = current_spreadsheet )
              => current_spreadsheet' = None
       /\ ( /\ current_spreadsheet = None
            /\ result'.op \in TargetOps
            /\ result'.args[Len(result'.args)] = None )
              => /\ result'.outcome = "return"
                 /\ ~result'.success
                 /\ result'.error = NoSpreadsheetSelected
                 /\ UNCHANGED <<db, current_spreadsheet>>
       /\ (current_spreadsheet = None /\ current_spreadsheet' # None)
              => /\ result'.op \in {"create_spreadsheet", "switch_spreadsheet"}
                 /\ result'.success
      ]_vars

\* the selected spreadsheet was deleted while another one stays registered,
\* and a call without a target was refused
C4_Witness ==
    /\ current_spreadsheet = None
    /\ Len(meta) = 1
    /\ result.op = "add_row"
    /\ result.error = NoSpreadsheetSelected

\* C5: edit_cell with a known column and a row id that no row of the target
\* table has returns success=false with a row-not-found error and leaves the
\* row count and every cell value unchanged
C5_EditMissingRow ==
    [][LET row_id == result'.args[1]
           column == result'.args[2]
           table == Or(result'.args[4], current_spreadsheet)
       IN  ( /\ result'.op = "edit_cell"
             /\ table # None
             /\ _sanitize_name(column) \in Range(get_columns(table))
             /\ \A r \in tables[lower(table)].rows : r.id # row_id )
           => /\ result'.outcome = "return"
              /\ ~result'.success
              /\ result'.error.fmt = "Row {row_id} not found"
              /\ tables' = tables
      ]_vars

\* the edit was refused on a table that has a row
C5_Witness ==
    /\ result.op = "edit_cell"
    /\ result.error.fmt = "Row {row_id} not found"
    /\ \E t \in DOMAIN tables : tables[t].rows # {}

\* C6: for every input x, _sanitize_name returns a result s with
\* _sanitize_name(s) = s, s does not start with a digit, and every character
\* of s is in [a-z0-9_]
C6_SanitizerTotalIdempotent ==
    s # Unset =>
        /\ s # IndexError
        /\ _sanitize_name(s) = s
        /\ s[1] \notin Digits
        /\ \A i \in 1..Len(s) : s[i] \in Range(LowerLetters) \cup Digits \cup {"_"}

\* C7: for every registered table, also after delete_column, get_data returns
\* the columns ["id"] followed by the registry's column list in registry
\* order, and the rows of the table sorted by id ascending
C7_GetDataOrder ==
    ( /\ result.op = "get_data"
      /\ result.outcome = "return"
      /\ result.success
      /\ result.data.spreadsheet \in RegisteredNames )
    => LET table == result.data.spreadsheet
           rows == result.data.rows
       IN  /\ result.data.columns = <<IdColumn>> \o get_columns(table)
           /\ \A i, j \in 1..Len(rows) : i < j => rows[i].id < rows[j].id
           /\ Range(rows) = tables[table].rows

\* get_data gave two rows of a table that lost a column
C7_Witness ==
    /\ result.op = "get_data"
    /\ result.success
    /\ result.data.spreadsheet \in RegisteredNames
    /\ Len(result.data.rows) = 2
    /\ Len(result.data.columns) = 2

\* C8: create_spreadsheet under a name whose sanitized form is registered
\* returns success=false and leaves the registry, the tables and
\* current_spreadsheet unchanged
C8_CreateExistingRefused ==
    [][( /\ result'.op = "create_spreadsheet"
         /\ _sanitize_name(result'.args[1]) \in RegisteredNames )
       => /\ result'.outcome = "return"
          /\ ~result'.success
          /\ UNCHANGED <<db, current_spreadsheet>>
      ]_vars

\* a create was refused for a spreadsheet that has a row
C8_Witness ==
    /\ result.op = "create_spreadsheet"
    /\ result.outcome = "return"
    /\ ~result.success
    /\ \E t \in DOMAIN tables : tables[t].rows # {}

\* C9: create_spreadsheet under a name whose sanitized form is not registered
\* returns success=true; the registry then holds the sanitized name with the
\* sanitized columns in the given order, the table has no rows, and
\* current_spreadsheet is the sanitized name
C9_CreateUnregisteredSucceeds ==
    [][LET table_name == _sanitize_name(result'.args[1])
           columns == result'.args[2]
       IN  ( /\ result'.op = "create_spreadsheet"
             /\ table_name # IndexError
             /\ table_name \notin RegisteredNames )
           => /\ result'.outcome = "return"
              /\ result'.success
              /\ \E i \in 1..Len(meta') :
                     /\ meta'[i].name = table_name
                     /\ Split(meta'[i].columns) =
                            [k \in 1..Len(columns) |-> _sanitize_name(columns[k])]
              /\ tables'[table_name].rows = {}
              /\ current_spreadsheet' = table_name
      ]_vars

\* C10: add_row stores the supplied values whose key sanitizes to a column of
\* the target table and ignores every other key without an error; when no key
\* sanitizes to a known column it returns success=false and adds no row
C10_AddRowStoresKnownKeys ==
    [][LET data == result'.args[1]
           table == Or(result'.args[2], current_spreadsheet)
           columns == get_columns(table)
           known == {i \in 1..Len(data) : _sanitize_name(data[i][1]) \in Range(columns)}
           t == lower(table)
       IN  (result'.op = "add_row" /\ table # None)
           => /\ result'.outcome = "return"
              /\ IF known = {}
                 THEN ~result'.success /\ tables' = tables
                 ELSE /\ result'.success
                      /\ \E r \in tables'[t].rows :
                             /\ tables'[t].rows = tables[t].rows \cup {r}
                             /\ r \notin tables[t].rows
                             /\ r.id = result'.data.row_id
                             /\ \A c \in Range(columns) :
                                    IF \E i \in known : _sanitize_name(data[i][1]) = c
                                    THEN \E i \in known :
                                             /\ _sanitize_name(data[i][1]) = c
                                             /\ r.cells[c] = data[i][2]
                                    ELSE r.cells[c] = NULL
      ]_vars

\* C11: add_column returns success=false and changes nothing when the
\* sanitized name is already a column of the target table; otherwise it
\* appends the sanitized name at the end of the registry's column list and
\* every row that existed before the call has the default in the new column
C11_AddColumnAppends ==
    [][LET column_name == result'.args[1]
           default_value == result'.args[2]
           table == Or(result'.args[3], current_spreadsheet)
           sanitized == _sanitize_name(column_name)
           columns == get_columns(table)
           t == lower(table)
       IN  ( /\ result'.op = "add_column"
             /\ table # None
             /\ _spreadsheet_exists(table)
             /\ sanitized # IndexError )
           => IF sanitized \in Range(columns)
              THEN /\ result'.outcome = "return"
                   /\ ~result'.success
                   /\ <<meta, tables>>' = <<meta, tables>>
              ELSE /\ result'.outcome = "return"
                   /\ result'.success
                   /\ \E i \in 1..Len(meta') :
                          /\ meta'[i].name = table
                          /\ Split(meta'[i].columns) = Append(columns, sanitized)
                   /\ \A r \in tables[t].rows :
                          \E q \in tables'[t].rows :
                              /\ q.id = r.id
                              /\ q.cells[sanitized] = default_value
      ]_vars

\* C12: delete_column of a name whose sanitized form is not in the target
\* table's registry column list returns success=false with a column-not-found
\* error and leaves the registry, the physical table and all rows unchanged
C12_DeleteMissingColumn ==
    [][LET column_name == result'.args[1]
           table == Or(result'.args[2], current_spreadsheet)
       IN  ( /\ result'.op = "delete_column"
             /\ table # None
             /\ _sanitize_name(column_name) \notin Range(get_columns(table)) )
           => /\ result'.outcome = "return"
              /\ ~result'.success
              /\ result'.error.fmt = "Column '{column_name}' not found"
              /\ <<meta, tables, sqlite_sequence>>' = <<meta, tables, sqlite_sequence>>
      ]_vars

\* C13: delete_row returns success=false and removes nothing when no row of
\* the target table has that id; when a row has that id it removes exactly
\* that row and leaves every other row's id and values unchanged
C13_DeleteRowExact ==
    [][LET row_id == result'.args[1]
           table == Or(result'.args[2], current_spreadsheet)
           t == lower(table)
       IN  ( /\ result'.op = "delete_row"
             /\ table # None
             /\ HasTable(table) )
           => /\ result'.outcome = "return"
              /\ DOMAIN tables' = DOMAIN tables
              /\ \A n \in DOMAIN tables \ {t} : tables'[n] = tables[n]
              /\ tables'[t].columns = tables[t].columns
              /\ IF \A r \in tables[t].rows : r.id # row_id
                 THEN /\ ~result'.success
                      /\ tables'[t].rows = tables[t].rows
                 ELSE /\ result'.success
                      /\ tables'[t].rows \subseteq tables[t].rows
                      /\ \A r \in tables[t].rows :
                             r \in tables'[t].rows <=> r.id # row_id
                      /\ Cardinality(tables'[t].rows) = Cardinality(tables[t].rows) - 1
      ]_vars

\* a row has been deleted and another row of the same table is still there
C13_Witness ==
    /\ result.op = "delete_row"
    /\ result.success
    /\ \E n \in DOMAIN tables :
           \E r \in tables[n].rows :
               /\ r.id # result.args[1]
               /\ \E c \in DOMAIN r.cells : r.cells[c] # NULL

\* C14: add_row, add_column, edit_cell, delete_row, delete_column, get_data
\* and export_csv act on the explicitly given spreadsheet when one is given,
\* otherwise on current_spreadsheet; with neither they return success=false
\* with "No spreadsheet selected" and change nothing
C14_TargetResolution ==
    [][LET given == result'.args[Len(result'.args)]
           table == IF given # None THEN given ELSE current_spreadsheet
           t == lower(table)
           op == result'.op
           ok == result'.outcome = "return" /\ result'.success
       IN  op \in TargetOps
           => /\ current_spreadsheet' = current_spreadsheet
              /\ IF table = None
                 THEN /\ result'.outcome = "return"
                      /\ ~result'.success
                      /\ result'.error = NoSpreadsheetSelected
                      /\ <<meta, tables, sqlite_sequence>>' = <<meta, tables, sqlite_sequence>>
                 ELSE /\ result'.error # NoSpreadsheetSelected
                      \* every other spreadsheet is left as it was
                      /\ \A n \in DOMAIN tables \ {t} :
                             n \in DOMAIN tables' /\ tables'[n] = tables[n]
                      /\ Len(meta') = Len(meta)
                      /\ \A i \in 1..Len(meta) :
                             meta[i].name # table => meta'[i] = meta[i]
                      \* what succeeded was done to the target
                      /\ (op = "get_data" /\ ok)
                             => /\ result'.data.spreadsheet = table
                                /\ result'.data.rows = OrderById(tables[t].rows)
                      /\ (op = "export_csv" /\ ok)
                             => /\ result'.data.path = DefaultPath(table)
                                /\ Len(result'.data.records) = Cardinality(tables[t].rows)
                      /\ (op = "add_row" /\ ok)
                             => \E r \in tables'[t].rows \ tables[t].rows :
                                    r.id = result'.data.row_id
                      /\ (op = "edit_cell" /\ ok)
                             => \E r \in tables'[t].rows :
                                    /\ r.id = result'.args[1]
                                    /\ r.cells[_sanitize_name(result'.args[2])] = result'.args[3]
                      /\ (op = "delete_row" /\ ok)
                             => /\ \E r \in tables[t].rows : r.id = result'.args[1]
                                /\ \A r \in tables'[t].rows : r.id # result'.args[1]
                      /\ (op = "delete_column" /\ ok)
                             => /\ _sanitize_name(result'.args[1]) \in Range(tables[t].columns)
                                /\ _sanitize_name(result'.args[1]) \notin Range(tables'[t].columns)
                      /\ (op = "add_column"
                          /\ result'.error.fmt = "Column '{column_name}' already exists")
                             => _sanitize_name(result'.args[1]) \in Range(tables[t].columns)
      ]_vars

\* a row went into the spreadsheet given explicitly while another one was
\* selected
C14_Witness ==
    /\ result.op = "add_row"
    /\ result.success
    /\ result.args[2] = <<"t">>
    /\ current_spreadsheet = TempPrefix \o <<"t">>
    /\ tables[<<"t">>].rows # {}
    /\ tables[current_spreadsheet].rows = {}

\* C15: every storage operation, for every input, returns a dict with a
\* success flag and, on failure, an error that is one of target-not-found,
\* duplicate-on-create, no-target-selected or empty-input; it never ends by
\* raising an exception
C15_StructuredOutcome ==
    [][LET target_not_found == {"Spreadsheet '{name}' not found",
                                "Column '{column}' not found",
                                "Column '{column_name}' not found",
                                "Row {row_id} not found"}
           duplicate_on_create == {"Spreadsheet '{name}' already exists",
                                   "Column '{column_name}' already exists"}
           no_target_selected == {"No spreadsheet selected"}
           empty_input == {"No valid columns in data"}
       IN  result' # result
           => /\ result'.outcome = "return"
              /\ result'.success \in BOOLEAN
              /\ ~result'.success
                     => result'.error.fmt \in target_not_found \cup duplicate_on_create
                                              \cup no_target_selected \cup empty_input
      ]_vars

\* C16: the REPL loop of run ends only when the user enters a quit command
\* (!quit, !exit, !q) or the input reaches end-of-file; a failure while
\* processing any other command is reported as an error and the loop goes on
\* to read the next input
C16_LoopEndsOnQuitOrEof ==
    [][(agent.pc = "loop" /\ agent' # agent)
           => IF agent'.input = EOFError
                 \/ ( /\ agent'.input # KeyboardInterrupt
                      /\ HasPrefix(agent'.input, <<"!">>)
                      /\ strip(lower(agent'.input)) \in QuitCommands )
              THEN agent'.pc = "done"
              ELSE /\ agent'.pc = "loop"
                   /\ agent'.shown # "fatal"
      ]_vars

\* C17: for every table state, export_csv followed by reading the written
\* CSV back gives a header equal to get_data's columns (id, then the registry
\* columns) and one record per row, in get_data's order, whose cell values
\* equal get_data's values as strings, a NULL and an empty string both read
\* back as blank
C17_CsvRoundTrip ==
    (result.op = "export_csv" /\ result.outcome = "return" /\ result.success)
    => LET read == ReadCsv(result.data.written)
           data == GetData("get_data", <<result.args[2]>>, result.args[2]).data
           Text(row, column) ==
               IF column = IdColumn THEN IntText(row.id)
               ELSE IF row.cells[column] = NULL THEN <<>>
               ELSE Chars(row.cells[column])
       IN  /\ Len(read) = 1 + Len(data.rows)
           /\ read[1] = data.columns
           /\ data.columns = <<IdColumn>> \o get_columns(result.args[2])
           /\ \A i \in 1..Len(data.rows) :
                  /\ Len(read[i + 1]) = Len(data.columns)
                  /\ \A j \in 1..Len(data.columns) :
                         read[i + 1][j] = Text(data.rows[i], data.columns[j])

\* a table with a NULL, an empty text and a text of quote, comma and line
\* break has been exported
C17_Witness ==
    /\ result.op = "export_csv"
    /\ result.outcome = "return"
    /\ result.success
    /\ Len(result.data.records) = 2
    /\ \E i, j \in 1..2 :
           /\ result.data.records[i][3] = "q\",\n"
           /\ result.data.records[j][3] = ""
           /\ result.data.records[j][2] = ""

\* C18: plot_data with no explicit plot_type on a non-empty table chooses the
\* chart from the classification of the columns: at least two numeric columns
\* give scatter; exactly one numeric column and at least one categorical
\* column give bar; exactly one numeric column and no categorical column give
\* histogram; no numeric column gives bar
C18_AutoPlotType ==
    LET rows == OrderById(tables[<<"t">>].rows)
        columns == Range(tables[<<"t">>].columns)
        numeric == {c \in columns : is_numeric_column(c, rows)}
        categorical == columns \ numeric
    IN  ( /\ chart.args # <<>>
          /\ strip(chart.args[1]) = <<>>
          /\ rows # <<>> )
        => /\ Cardinality(numeric) >= 2 => chart.plot_type = "scatter"
           /\ (Cardinality(numeric) = 1 /\ categorical # {}) => chart.plot_type = "bar"
           /\ (Cardinality(numeric) = 1 /\ categorical = {})
                  => chart.plot_type = "histogram"
           /\ numeric = {} => chart.plot_type = "bar"
           /\ Range(chart.numeric_cols) = numeric
           /\ Range(chart.categorical_cols) = categorical

\* a table of one numeric and one categorical column was plotted with no
\* plot_type given
C18_Witness ==
    /\ chart.args # <<>>
    /\ chart.args[1] = <<>>
    /\ chart.plot_type = "bar"
    /\ chart.numeric_cols = <<<<"a">>>>
    /\ chart.categorical_cols = <<<<"b">>>>
    /\ chart.error = ""

\* C19 as stated: when create_spreadsheet fails because the sanitized form of
\* the requested name is already registered, the "already exists" error text
\* names the sanitized identifier, not the name as the caller wrote it
C19_ErrorNamesSanitized ==
    [][( /\ result'.op = "create_spreadsheet"
         /\ result'.outcome = "return"
         /\ ~result'.success
         /\ _sanitize_name(result'.args[1]) \in RegisteredNames )
           => /\ result'.error.fmt = "Spreadsheet '{name}' already exists"
              /\ result'.error.arg = _sanitize_name(result'.args[1])
      ]_vars

\* C19 amended: when create_spreadsheet fails because the sanitized form of
\* the requested name is already registered, the "already exists" error text
\* names the name as the caller wrote it, not the sanitized identifier
C19_ErrorNamesGivenName ==
    [][( /\ result'.op = "create_spreadsheet"
         /\ result'.outcome = "return"
         /\ ~result'.success
         /\ _sanitize_name(result'.args[1]) \in RegisteredNames )
           => /\ result'.error.fmt = "Spreadsheet '{name}' already exists"
              /\ result'.error.arg = result'.args[1]
      ]_vars

\* a create was refused under a name that differs from its sanitized form
C19_Witness ==
    /\ result.op = "create_spreadsheet"
    /\ result.outcome = "return"
    /\ ~result.success
    /\ result.error.fmt = "Spreadsheet '{name}' already exists"
    /\ _sanitize_name(result.args[1]) \in RegisteredNames
    /\ _sanitize_name(result.args[1]) # result.args[1]

\* C20 as stated: "My List!" and "my_list " (with a trailing space) sanitize
\* to the same identifier, so creating a spreadsheet under the first name and
\* then under the second makes the second create fail with "already exists"
C20_NamesCollide ==
    [][( /\ result'.op = "create_spreadsheet"
         /\ result'.args[1] = MyListSpace
         /\ _sanitize_name(MyListBang) \in RegisteredNames )
           => /\ _sanitize_name(MyListBang) = _sanitize_name(MyListSpace)
              /\ result'.outcome = "return"
              /\ ~result'.success
              /\ result'.error.fmt = "Spreadsheet '{name}' already exists"
      ]_vars

\* C20 amended: "My List!" sanitizes to my_list_ and "my_list " (the trailing
\* space stripped) to my_list, two identifiers: after a create under the
\* first name a create under the second succeeds and both are registered;
\* "MY LIST?" sanitizes to my_list_ as "My List!" does, and a create under it
\* after one under "My List!" fails with "already exists"
C20_NamesDiffer ==
    [][/\ _sanitize_name(MyListBang) = <<"m", "y", "_", "l", "i", "s", "t", "_">>
       /\ _sanitize_name(MyListSpace) = <<"m", "y", "_", "l", "i", "s", "t">>
       /\ _sanitize_name(MyListQuery) = _sanitize_name(MyListBang)
       /\ ( /\ result'.op = "create_spreadsheet"
            /\ result'.args[1] = MyListSpace
            /\ _sanitize_name(MyListBang) \in RegisteredNames
            /\ _sanitize_name(MyListSpace) \notin RegisteredNames )
              => /\ result'.outcome = "return"
                 /\ result'.success
                 /\ {meta'[i].name : i \in 1..Len(meta')}
                        = RegisteredNames \cup {_sanitize_name(MyListSpace)}
       /\ ( /\ result'.op = "create_spreadsheet"
            /\ result'.args[1] = MyListQuery
            /\ _sanitize_name(MyListBang) \in RegisteredNames )
              => /\ result'.outcome = "return"
                 /\ ~result'.success
                 /\ result'.error.fmt = "Spreadsheet '{name}' already exists"
      ]_vars

\* "my_list " has just been created next to the spreadsheet of "My List!"
C20_Witness ==
    /\ result.op = "create_spreadsheet"
    /\ result.args[1] = MyListSpace
    /\ result.success
    /\ Len(meta) = 2
    /\ meta[1].name = _sanitize_name(MyListBang)
    /\ meta[2].name = _sanitize_name(MyListSpace)

\* C21: a row that add_row has just created holds the empty value (NULL) in
\* every column of the table that the call named no value for, whatever
\* add_column and delete_column calls came before.
C21_UnsuppliedColumnsEmpty ==
    [][(result'.op = "add_row" /\ result'.outcome = "return" /\ result'.success)
       => LET data == result'.args[1]
              t == lower(Or(result'.args[2], current_spreadsheet))
          IN  \E r \in tables'[t].rows \ tables[t].rows :
                  /\ r.id = result'.data.row_id
                  /\ DOMAIN r.cells = Range(tables'[t].columns)
                  /\ \A c \in DOMAIN r.cells :
                         (\A i \in 1..Len(data) : _sanitize_name(data[i][1]) # c)
                             => r.cells[c] = NULL]_vars

\* a row added after a delete_column, with a column it gave no value for
C21_Witness ==
    /\ result.op = "add_row" /\ result.outcome = "return" /\ result.success
    /\ Len(tables[<<"t">>].columns) = 2
    /\ \E r \in tables[<<"t">>].rows :
           /\ r.id = result.data.row_id
           /\ \E c \in DOMAIN r.cells : r.cells[c] = NULL
           /\ \E c \in DOMAIN r.cells : r.cells[c] # NULL

\* the registry and the physical tables of a stored state agree: every table
\* is registered, every registered table is there, with the registered columns
Agree(stored) ==
    /\ DOMAIN stored.tables = {stored.meta[i].name : i \in 1..Len(stored.meta)}
    /\ \A i \in 1..Len(stored.meta) :
           stored.meta[i].name \in DOMAIN stored.tables
               => Split(stored.meta[i].columns)
                      = stored.tables[stored.meta[i].name].columns

\* C22: whenever no delete_column is under way (it returned, failed or was
\* interrupted between two of its statements), the stored state has no
\* leftover shadow table, no missing original table and no registry column
\* list that differs from the physical columns; this holds for what is
\* committed on disk and for what the open connection holds.
C22_RebuildAtomic ==
    rebuild.pc \in {"idle", "closed"}
        => /\ Agree(Stored)
           /\ Agree([meta |-> meta, tables |-> tables,
                     sqlite_sequence |-> sqlite_sequence])

\* C23: a Ctrl-C while the loop waits for input costs only the pending line:
\* the loop is still running afterwards, storage and current_spreadsheet are
\* as before, and the loop's later course is that of a loop that was never
\* interrupted, so it never ends because of the interrupt.
C23_InterruptDiscardsLine ==
    [][agent.pc = "loop"
          => /\ (agent'.input = KeyboardInterrupt /\ agent' # agent)
                    => /\ agent'.pc = "loop"
                       /\ <<meta, tables, sqlite_sequence>>' = <<meta, tables, sqlite_sequence>>
                       /\ current_spreadsheet' = current_spreadsheet
             /\ agent'.ended_by # "cancelled"]_vars

\* C29: once run has ended (quit, end of input, or a fatal exception in
\* setup or in the loop) the client, if one was created, is disconnected and
\* the manager's connection is closed.
C29_EndDisconnectsAndCloses ==
    agent.pc = "done"
        => /\ agent.client => agent.disconnected
           /\ agent.closed

\* C24: when run leaves its start-up (before any line is read), the selected
\* spreadsheet is the first registered one in creation order if nothing was
\* selected and at least one spreadsheet is registered, and it stays None
\* if none is registered.
C24_StartupSelectsFirst ==
    [][(agent.pc = "start" /\ agent'.pc # "start" /\ current_spreadsheet = None)
          => /\ agent'.input = None
             /\ current_spreadsheet' = IF meta = <<>> THEN None ELSE meta[1].name]_vars

\* start-up is over with two spreadsheets registered and the older one selected
C24_Witness ==
    /\ agent.pc = "loop"
    /\ agent.input = None
    /\ Len(meta) = 2
    /\ current_spreadsheet = meta[1].name
    /\ result.op = "switch_spreadsheet"

\* C25: after any sequence of manager operations, current_spreadsheet is
\* None or the name of a spreadsheet that is registered at that moment.
C25_SelectionRegistered ==
    current_spreadsheet = None \/ current_spreadsheet \in RegisteredNames

\* a spreadsheet has just been deleted while another one stays selected
C25_Witness ==
    /\ result.op = "delete_spreadsheet"
    /\ result.success
    /\ current_spreadsheet # None
    /\ current_spreadsheet \in RegisteredNames
    /\ _sanitize_name(result.args[1]) # current_spreadsheet

\* C26: within the lifetime of a spreadsheet, the id a successful add_row
\* returns is greater than every id add_row handed out in it before (rows
\* since deleted and rebuilds by delete_column included): no id is reused.
C26_RowIdsNeverReused ==
    [][(result'.op = "add_row" /\ result'.outcome = "return" /\ result'.success)
          => LET t == lower(Or(result'.args[2], current_spreadsheet))
             IN  \A a \in assigned : a[1] = t => a[2] < result'.data.row_id]_vars

FrameOps == {"add_row", "add_column", "edit_cell", "delete_row", "delete_column",
             "delete_spreadsheet"}

\* C27: add_row, add_column, edit_cell, delete_row, delete_column and
\* delete_spreadsheet applied to one spreadsheet leave the registry entry, the
\* columns and the rows of every other registered spreadsheet as they were,
\* also when the other spreadsheet is named "_temp_" plus the target's name.
C27_OtherSpreadsheetsUntouched ==
    [][result'.op \in FrameOps
       => \A target \in {lower(IF result'.op = "delete_spreadsheet"
                                THEN _sanitize_name(result'.args[1])
                                ELSE Or(result'.args[Len(result'.args)],
                                        current_spreadsheet))} :
              \A i \in 1..Len(meta) :
                  meta[i].name # target
                      => /\ \E j \in 1..Len(meta') : meta'[j] = meta[i]
                         /\ meta[i].name \in DOMAIN tables
                               => /\ meta[i].name \in DOMAIN tables'
                                  /\ tables'[meta[i].name] = tables[meta[i].name]
      ]_vars

\* delete_column was applied to t while the spreadsheet _temp_t is registered
\* and holds a row
C27_Witness ==
    /\ result.op = "delete_column"
    /\ Or(result.args[2], current_spreadsheet) = <<"t">>
    /\ {<<"t">>, TempPrefix \o <<"t">>} \subseteq RegisteredNames
    /\ tables[TempPrefix \o <<"t">>].rows # {}

\* C28: switch_spreadsheet(name) returns; when the sanitized name is
\* registered it returns success=true and current_spreadsheet becomes that
\* name, otherwise it returns success=false and current_spreadsheet stays;
\* the registry and the tables are unchanged either way.
C28_SwitchSelectsRegistered ==
    [][result'.op = "switch_spreadsheet"
       => \A table \in {_sanitize_name(result'.args[1])} :
              /\ <<meta, tables, sqlite_sequence>>' = <<meta, tables, sqlite_sequence>>
              /\ result'.outcome = "return"
              /\ IF _spreadsheet_exists(table)
                 THEN result'.success /\ current_spreadsheet' = table
                 ELSE ~result'.success /\ current_spreadsheet' = current_spreadsheet
      ]_vars

\* C30: when plot_data picks the scatter kind by itself (no plot_type, no
\* x_column and no y_column given, at least two numeric columns), the x and
\* the y column it picks are two different columns, both classified numeric,
\* whether or not the table has categorical columns too.
C30_ScatterAxesNumeric ==
    ( /\ chart.args # <<>>
      /\ strip(chart.args[1]) = <<>>
      /\ chart.plot_type = "scatter" )
    => /\ chart.x_column # chart.y_column
       /\ chart.x_column \in Range(chart.numeric_cols)
       /\ chart.y_column \in Range(chart.numeric_cols)

=============================================================================
